---- MODULE Spec2Model ----
(***************************************************************************)
(* Model of the docker-registry-proxy worker: the fetch handler of         *)
(* src/src/index.js and of its two refactorings src/unnamed/part_003 and   *)
(* src/unnamed/part_004, with the process-wide state they share between    *)
(* requests (the metrics object and the regex cache).                      *)
(*                                                                         *)
(* Strings are sequences of one-character strings, so that matching,       *)
(* lower-casing and the coercion of null are computed, not assumed.        *)
(***************************************************************************)
EXTENDS Bags, FiniteSets, Integers, Sequences, TLC

VARIABLES
    variant,      \* which handler file serves the process
    env,          \* the configuration bag handed to fetch(request, env, ctx)
    regexCache,   \* const regexCache = new Map(): key -> lastIndex of the cached RegExp
    metrics,      \* const metrics = new Metrics()
    cur,          \* the request being handled, or the last one handled
    served,       \* number of requests received so far (also the request id source)
    tally,        \* what the requests answered so far came to (not program state)
    stream,       \* one hostname-replacing TransformStream and the body piped through it
    logger,       \* one WorkerLogger instance and what it wrote to the console
    flight        \* two requests in flight at once and the timing map they share

vars == <<variant, env, regexCache, metrics, cur, served, tally,
          stream, logger, flight>>

\* the state outside the handler run of the specification Spec
others == <<stream, logger, flight>>

\* ------------------------------------------------------------------ bounds

\* requests one process run receives
MaxRequests == 2

\* access patterns one configuration sets at once
MaxRules == 2

\* ----------------------------------------------------------------- strings

\* JavaScript null (a header that is absent): no string at all
JSNull == <<"#null">>

\* String(null), the text a RegExp sees when it is handed null
NullText == <<"n", "u", "l", "l">>

EmptyText == <<>>

UpperCase == <<"A","B","C","D","E","F","G","H","I","J","K","L","M",
               "N","O","P","Q","R","S","T","U","V","W","X","Y","Z">>
LowerCase == <<"a","b","c","d","e","f","g","h","i","j","k","l","m",
               "n","o","p","q","r","s","t","u","v","w","x","y","z">>

\* String.prototype.toLowerCase, one character
LowerChar(c) ==
    IF \E k \in DOMAIN UpperCase : UpperCase[k] = c
    THEN LowerCase[CHOOSE k \in DOMAIN UpperCase : UpperCase[k] = c]
    ELSE c

\* String.prototype.toLowerCase
toLowerCase(s) == [k \in 1..Len(s) |-> LowerChar(s[k])]

\* the ToString coercion RegExp.prototype.test applies to its argument
ToText(v) == IF v = JSNull THEN NullText ELSE v

\* a JavaScript value is truthy: null and "" are not
Truthy(v) == v # JSNull /\ v # EmptyText

\* ------------------------------------------------------------------- regex

(***************************************************************************)
(* A pattern of the configuration: its source text (also its cache key),   *)
(* whether new RegExp(src) compiles, and what it matches: the literal lit, *)
(* at position 0 only when it starts with ^, up to the end of the text     *)
(* only when it ends with $.  src = "" is a key that is not configured.    *)
(***************************************************************************)
Pattern(src, valid, anchor, lit, end) ==
    [src |-> src, valid |-> valid, anchor |-> anchor, lit |-> lit, end |-> end]

NoPattern == Pattern("", TRUE, FALSE, <<>>, FALSE)

\* env[key] is truthy
Configured(p) == p.src # ""

\* the pattern matches text at the 0-based position i
MatchesAt(p, text, i) ==
    /\ p.anchor => i = 0
    /\ i + Len(p.lit) <= Len(text)
    /\ \A k \in 1..Len(p.lit) : text[i + k] = p.lit[k]
    /\ p.end => i + Len(p.lit) = Len(text)

SetMin(S) == CHOOSE x \in S : \A y \in S : x <= y

(***************************************************************************)
(* RegExp.prototype.test of a RegExp compiled with the flag g: the search  *)
(* starts at the object's lastIndex; a match leaves lastIndex at the end   *)
(* of the match, a failure resets it to 0.                                 *)
(***************************************************************************)
RegExpTest(p, text, lastIndex) ==
    LET hits == {i \in lastIndex..Len(text) : MatchesAt(p, text, i)}
    IN  IF hits = {}
        THEN [found |-> FALSE, lastIndex |-> 0]
        ELSE [found |-> TRUE, lastIndex |-> SetMin(hits) + Len(p.lit)]

\* the pattern matches the text somewhere (a fresh RegExp, lastIndex 0)
Matches(p, text) == RegExpTest(p, text, 0).found

\* regexCache.set(key, new RegExp(pattern, flags)) unless the key is there
CacheInsert(cache, p) ==
    IF p.src \in DOMAIN cache THEN cache ELSE cache @@ (p.src :> 0)

(***************************************************************************)
(* getCachedRegex(pattern): the cache after the call and whether a RegExp  *)
(* came back.  index.js compiles whatever it is given (an invalid pattern  *)
(* throws); part_003 and part_004 return null for an absent or invalid     *)
(* pattern and cache nothing for it.                                       *)
(***************************************************************************)
getCachedRegex(cache, p) ==
    IF Configured(p) /\ p.valid
    THEN [cache |-> CacheInsert(cache, p), regex |-> TRUE]
    ELSE [cache |-> cache, regex |-> FALSE]

\* regex.test(value) on the cached object: the verdict and the cache after it
CachedTest(cache, p, value) ==
    LET r == RegExpTest(p, ToText(value), cache[p.src])
    IN  [found |-> r.found, cache |-> [cache EXCEPT ![p.src] = r.lastIndex]]

\* ------------------------------------------------------- String.prototype

\* s.includes(sub)
Includes(s, sub) ==
    \E i \in 0..(Len(s) - Len(sub)) : \A k \in 1..Len(sub) : s[i + k] = sub[k]

\* s.startsWith(sub)
StartsWith(s, sub) ==
    Len(sub) <= Len(s) /\ \A k \in 1..Len(sub) : s[k] = sub[k]

\* s.endsWith(sub)
EndsWith(s, sub) ==
    Len(sub) <= Len(s) /\ \A k \in 1..Len(sub) : s[Len(s) - Len(sub) + k] = sub[k]

\* ------------------------------------------------------------- the inputs

\* the handler files of the repository
Variants == {"index.js", "part_003", "part_004"}

\* GET /v2/a/manifests/b and GET /v1/search
PathManifest == <<"/", "v", "2", "/", "a", "/", "m", "a", "n", "i", "f", "e", "s", "t", "s", "/", "b">>
PathSearch == <<"/", "v", "1", "/", "s", "e", "a", "r", "c", "h">>
Paths == {PathManifest, PathSearch}

\* user-agent header: absent, "curl", "Curl"
UserAgents == {JSNull, <<"c", "u", "r", "l">>, <<"C", "u", "r", "l">>}

\* cf-connecting-ip header: absent, 10.10.0.5, 192.168.0.1
IpTen == <<"1", "0", ".", "1", "0", ".", "0", ".", "5">>
IpOther == <<"1", "9", "2", ".", "1", "6", "8", ".", "0", ".", "1">>
ClientIps == {JSNull, IpTen, IpOther}

\* cf-ipcountry header: absent, "CN", "cn"
Countries == {JSNull, <<"C", "N">>, <<"c", "n">>}

\* GET /v2/token, GET /token, GET /v2/_catalog: paths of the routing rules
PathV2Token == <<"/", "v", "2", "/", "t", "o", "k", "e", "n">>
PathToken == <<"/", "t", "o", "k", "e", "n">>
PathCatalog == <<"/", "v", "2", "/", "_", "c", "a", "t", "a", "l", "o", "g">>
RoutingPaths == {PathV2Token, PathToken, PathCatalog}

\* url.hostname of the inbound request: the name the clients call the proxy by
OriginHost == "mirror.example"

\* GET /v1/a/manifests/b: a manifest path outside /v2
PathV1Manifest == <<"/", "v", "1", "/", "a", "/", "m", "a", "n", "i", "f", "e", "s", "t", "s", "/", "b">>

\* GET /v2/a/blobs/sha256:zz and a blob path with a digest of 64 hex digits
PathBadDigest == <<"/", "v", "2", "/", "a", "/", "b", "l", "o", "b", "s", "/", "s", "h", "a", "2", "5", "6", ":", "z", "z">>
HexRun == <<"0", "1", "2", "3", "4", "5", "6", "7", "8", "9", "a", "b", "c", "d", "e", "f">>
PathBlob ==
    <<"/", "v", "2", "/", "a", "/", "b", "l", "o", "b", "s", "/", "s", "h", "a", "2", "5", "6", ":">>
    \o HexRun \o HexRun \o HexRun \o HexRun

\* the headers a request may carry besides the three of the access rules;
\* a value is a sequence of pieces of text, a hostname being one piece
NoMoreHeaders ==
    [range |-> JSNull, accept |-> JSNull, realIp |-> JSNull,
     forwardedFor |-> JSNull, referer |-> JSNull]

BareRequest(p) ==
    [pathname |-> p, ua |-> JSNull, ip |-> JSNull, country |-> JSNull]
    @@ NoMoreHeaders

\* Range: bytes=0-9
RangeBytes == <<"bytes=0-9">>

\* a Range value that names the proxy itself
RangeNamingOrigin == <<"bytes=0-9;", OriginHost>>

\* requests with a Range, an Accept, a Referer and the forwarding headers,
\* and requests for the manifest path outside /v2 and for the blob paths
HeaderRequests ==
    { [BareRequest(PathManifest) EXCEPT !.range = RangeBytes,
                                        !.accept = <<"text/plain">>],
      [BareRequest(PathManifest) EXCEPT
            !.range = RangeNamingOrigin,
            !.referer = <<"https://", OriginHost, "/">>],
      [BareRequest(PathManifest) EXCEPT !.ip = IpOther, !.realIp = IpOther,
                                        !.forwardedFor = IpOther],
      [BareRequest(PathV1Manifest) EXCEPT !.accept = <<"text/plain">>],
      BareRequest(PathBadDigest),
      [BareRequest(PathBlob) EXCEPT !.range = RangeBytes] }

\* the requests: every combination of the headers of the access rules on the
\* two registry paths, a request without headers on each path of the routing
\* rules, and the requests with other headers
Requests ==
    { r @@ NoMoreHeaders :
        r \in [pathname : Paths, ua : UserAgents, ip : ClientIps,
               country : Countries] }
    \cup { BareRequest(p) : p \in RoutingPaths }
    \cup HeaderRequests

\* ------------------------------------------------------ the configuration

\* regexConfigs of validateConfig, in the order the access check reads them
RuleSlots == <<"PATHNAME_REGEX", "UA_WHITELIST_REGEX", "UA_BLACKLIST_REGEX",
               "IP_WHITELIST_REGEX", "IP_BLACKLIST_REGEX",
               "REGION_WHITELIST_REGEX", "REGION_BLACKLIST_REGEX">>

SlotSet == {RuleSlots[k] : k \in DOMAIN RuleSlots}

\* the patterns a deployment may put under each key
SlotPatterns(slot) ==
    CASE slot = "PATHNAME_REGEX" ->
            { Pattern("^/v2/", TRUE, TRUE, <<"/", "v", "2", "/">>, FALSE),
              Pattern("(", FALSE, FALSE, <<>>, FALSE) }
      [] slot = "UA_WHITELIST_REGEX" ->
            { Pattern("curl", TRUE, FALSE, <<"c", "u", "r", "l">>, FALSE) }
      [] slot = "UA_BLACKLIST_REGEX" ->
            { Pattern("^cur", TRUE, TRUE, <<"c", "u", "r">>, FALSE) }
      [] slot = "IP_WHITELIST_REGEX" ->
            { Pattern("10\\.", TRUE, FALSE, <<"1", "0", ".">>, FALSE) }
      [] slot = "IP_BLACKLIST_REGEX" ->
            { Pattern("^10\\.", TRUE, TRUE, <<"1", "0", ".">>, FALSE) }
      [] slot = "REGION_WHITELIST_REGEX" ->
            { Pattern("^CN$", TRUE, TRUE, <<"C", "N">>, TRUE) }
      [] slot = "REGION_BLACKLIST_REGEX" ->
            { Pattern("CN", TRUE, FALSE, <<"C", "N">>, FALSE),
              Pattern("^$", TRUE, TRUE, <<>>, TRUE) }

\* what a deployment may put under a key: nothing, or one of its patterns
SlotChoices(slot) == {NoPattern} \cup SlotPatterns(slot)

\* the access patterns of one configuration: at most MaxRules keys are set
RuleConfigs ==
    { r \in [PATHNAME_REGEX : SlotChoices("PATHNAME_REGEX"),
             UA_WHITELIST_REGEX : SlotChoices("UA_WHITELIST_REGEX"),
             UA_BLACKLIST_REGEX : SlotChoices("UA_BLACKLIST_REGEX"),
             IP_WHITELIST_REGEX : SlotChoices("IP_WHITELIST_REGEX"),
             IP_BLACKLIST_REGEX : SlotChoices("IP_BLACKLIST_REGEX"),
             REGION_WHITELIST_REGEX : SlotChoices("REGION_WHITELIST_REGEX"),
             REGION_BLACKLIST_REGEX : SlotChoices("REGION_BLACKLIST_REGEX")] :
        Cardinality({s \in SlotSet : Configured(r[s])}) <= MaxRules }

\* URL302: not set, an absolute URL, a text Response.redirect cannot parse
Url302Choices == {"", "https://example.com/blocked", "blocked"}

\* new URL(u) succeeds
IsAbsoluteUrl(u) == u = "https://example.com/blocked"

\* PROXY_HOSTNAME: not set, a private registry
HostChoices == {"", "registry.example"}

\* a MAX_RETRIES large enough for the sixth backoff delay to be waited
LongRetries == 7

\* MAX_RETRIES of the configurations that set access patterns
RetryChoices == {1}

\* MAX_RETRIES of the configurations without access patterns: 0, not set
\* (-1 stands for undefined), and LongRetries
RetryEdgeChoices == {0, -1, LongRetries}

\* MAX_RETRIES = 3 in the destructuring of env
DefaultMaxRetries == 3

NoRules == [s \in SlotSet |-> NoPattern]

\* AUTH_PROXY_HOSTNAME and INDEX_PROXY_HOSTNAME when a deployment sets them
BackendOverrides == {"backend.example"}

Settings(h, u, n) ==
    [PROXY_HOSTNAME |-> h, URL302 |-> u, MAX_RETRIES |-> n,
     AUTH_PROXY_HOSTNAME |-> "", INDEX_PROXY_HOSTNAME |-> ""]

(***************************************************************************)
(* The configurations a process may run with.  Without PROXY_HOSTNAME the  *)
(* handler stops in validateConfig before it reads any other key, so those *)
(* configurations carry no access pattern.                                 *)
(***************************************************************************)
Envs ==
    { r @@ Settings(h, u, n) :
        r \in RuleConfigs, h \in HostChoices \ {""}, u \in Url302Choices,
        n \in RetryChoices }
    \cup
    { NoRules @@ Settings(h, "", n) :
        h \in HostChoices \ {""}, n \in RetryEdgeChoices }
    \cup
    { NoRules @@ Settings("", u, -1) : u \in Url302Choices }
    \cup
    { NoRules @@ [Settings(h, "", 1) EXCEPT !.AUTH_PROXY_HOSTNAME = x,
                                            !.INDEX_PROXY_HOSTNAME = x] :
        h \in HostChoices \ {""}, x \in BackendOverrides }

\* ---------------------------------------------------------------- Metrics

\* new Metrics(): the counters of all three files; a file leaves at 0 the
\* counters it does not have
NewMetrics ==
    [requests |-> 0, errors |-> 0, denied |-> 0, timeouts |-> 0, retries |-> 0,
     bytesTransferred |-> 0, requestTimings |-> {}]

recordRequestStart(m, id) ==
    [m EXCEPT !.requests = @ + 1, !.requestTimings = @ \cup {id}]

recordRequestEnd(m, id, bytes) ==
    [m EXCEPT !.bytesTransferred = @ + bytes, !.requestTimings = @ \ {id}]

recordError(m) == [m EXCEPT !.errors = @ + 1]

recordDenied(m) == [m EXCEPT !.denied = @ + 1]

recordTimeout(m) == [m EXCEPT !.timeouts = @ + 1]

recordRetry(m) == [m EXCEPT !.retries = @ + 1]

\* a / b as getMetrics computes a rate, "(a / b) || 0", kept as a fraction:
\* 0 / 0 is NaN and 0 / b is 0, and both give 0
RateOf(a, b) ==
    IF a = 0 \/ b = 0 THEN [num |-> 0, den |-> 1] ELSE [num |-> a, den |-> b]

\* Metrics.getMetrics(): the snapshot
getMetrics(m) ==
    [requests |-> m.requests, errors |-> m.errors, timeouts |-> m.timeouts,
     retries |-> m.retries, bytesTransferred |-> m.bytesTransferred,
     errorRate |-> RateOf(m.errors, m.requests),
     timeoutRate |-> RateOf(m.timeouts, m.requests),
     retryRate |-> RateOf(m.retries, m.requests)]

\* --------------------------------------------------------- validateConfig

\* the first key of regexConfigs, from position k on, whose pattern does not
\* compile; "" when there is none
RECURSIVE FirstInvalid(_, _)
FirstInvalid(e, k) ==
    IF k > Len(RuleSlots) THEN ""
    ELSE IF Configured(e[RuleSlots[k]]) /\ ~e[RuleSlots[k]].valid THEN RuleSlots[k]
    ELSE FirstInvalid(e, k + 1)

(***************************************************************************)
(* validateConfig(env): the key the thrown CONFIG_ERROR names, or "" when  *)
(* nothing is thrown.  index.js throws for a pattern that does not         *)
(* compile; part_004 only logs it; part_003 does not look at patterns.     *)
(***************************************************************************)
validateConfig(v, e) ==
    IF e.PROXY_HOSTNAME = "" THEN "PROXY_HOSTNAME"
    ELSE IF v = "index.js" THEN FirstInvalid(e, 1)
    ELSE ""

\* ---------------------------------------------------------------- routing

isManifestOrBlobRequest(pathname) ==
    Includes(pathname, <<"/", "m", "a", "n", "i", "f", "e", "s", "t", "s", "/">>) \/ Includes(pathname, <<"/", "b", "l", "o", "b", "s", "/">>)

OrDefault(value, default) == IF value = "" THEN default ELSE value

\* the backend host the handler picks for a path
Route(v, e, pathname) ==
    IF v = "index.js" THEN
        IF Includes(pathname, <<"/", "t", "o", "k", "e", "n">>) THEN "auth.docker.io"
        ELSE IF Includes(pathname, <<"/", "s", "e", "a", "r", "c", "h">>) THEN "index.docker.io"
        ELSE IF StartsWith(pathname, <<"/", "v", "2">>) /\ isManifestOrBlobRequest(pathname)
             THEN "registry-1.docker.io"
        ELSE e.PROXY_HOSTNAME
    ELSE
        IF v = "part_004" /\ pathname \in {<<"/", "v", "2", "/">>, <<"/", "v", "2">>} THEN e.PROXY_HOSTNAME
        ELSE IF /\ StartsWith(pathname, <<"/", "v", "2", "/">>)
                /\ (EndsWith(pathname, <<"/", "t", "o", "k", "e", "n">>) \/ Includes(pathname, <<"/", "a", "u", "t", "h">>))
             THEN OrDefault(e.AUTH_PROXY_HOSTNAME, "auth.docker.io")
        ELSE IF \/ StartsWith(pathname, <<"/", "v", "1", "/", "s", "e", "a", "r", "c", "h">>)
                \/ StartsWith(pathname, <<"/", "v", "2", "/", "_", "c", "a", "t", "a", "l", "o", "g">>)
             THEN OrDefault(e.INDEX_PROXY_HOSTNAME, "index.docker.io")
        ELSE e.PROXY_HOSTNAME

\* ----------------------------------------------------------- access check

\* IsAllowSlot with the negation of the path rule lost: the path pattern
\* keeps matching paths out.
IsAllowSlotPathInverted(slot) ==
    slot \in {"UA_WHITELIST_REGEX", "IP_WHITELIST_REGEX", "REGION_WHITELIST_REGEX"}

\* a key that lets matching values through; the others keep them out
IsAllowSlot(slot) ==
    slot \in {"PATHNAME_REGEX", "UA_WHITELIST_REGEX", "IP_WHITELIST_REGEX",
              "REGION_WHITELIST_REGEX"}

\* denialReason of part_003 and part_004
ReasonOf(slot) ==
    CASE slot = "PATHNAME_REGEX" -> "Pathname mismatch"
      [] slot = "UA_WHITELIST_REGEX" -> "UA not whitelisted"
      [] slot = "UA_BLACKLIST_REGEX" -> "UA blacklisted"
      [] slot = "IP_WHITELIST_REGEX" -> "IP not whitelisted"
      [] slot = "IP_BLACKLIST_REGEX" -> "IP blacklisted"
      [] slot = "REGION_WHITELIST_REGEX" -> "Region not whitelisted"
      [] slot = "REGION_BLACKLIST_REGEX" -> "Region blacklisted"

(***************************************************************************)
(* The value a rule hands to regex.test.  index.js lower-cases the         *)
(* user-agent and replaces an absent or empty one by ''; part_003 and      *)
(* part_004 replace an absent one by "" and keep its case.  Client IP and  *)
(* region are handed over as the header lookup returned them.              *)
(***************************************************************************)
Subject(v, slot, req) ==
    CASE slot = "PATHNAME_REGEX" -> req.pathname
      [] slot \in {"UA_WHITELIST_REGEX", "UA_BLACKLIST_REGEX"} ->
            IF req.ua = JSNull THEN EmptyText
            ELSE IF v = "index.js" THEN toLowerCase(req.ua)
            ELSE req.ua
      [] slot \in {"IP_WHITELIST_REGEX", "IP_BLACKLIST_REGEX"} -> req.ip
      [] slot \in {"REGION_WHITELIST_REGEX", "REGION_BLACKLIST_REGEX"} -> req.country

\* part_003 guards the IP and region rules by "clientIp &&", "clientCountry &&"
Guarded(v, slot) ==
    /\ v = "part_003"
    /\ slot \in {"IP_WHITELIST_REGEX", "IP_BLACKLIST_REGEX",
                 "REGION_WHITELIST_REGEX", "REGION_BLACKLIST_REGEX"}

\* the state the rules are evaluated from
AccessStart(cache) ==
    [cache |-> cache, denied |-> FALSE, reason |-> "", threw |-> FALSE]

\* EvalRule with the guard "!denied &&" dropped: a later failing rule
\* overwrites the reason an earlier one set.
EvalRuleOverwrites(v, e, req, st, slot) ==
    LET p == e[slot]
        g == getCachedRegex(st.cache, p)
        value == Subject(v, slot, req)
    IN  IF st.threw \/ ~Configured(p) \/ ~g.regex THEN st
        ELSE IF Guarded(v, slot) /\ ~Truthy(value) THEN st
        ELSE LET t == CachedTest(g.cache, p, value)
                 deny == IF IsAllowSlot(slot) THEN ~t.found ELSE t.found
             IN  [cache |-> t.cache, denied |-> st.denied \/ deny,
                  reason |-> IF deny /\ v # "index.js" THEN ReasonOf(slot)
                             ELSE st.reason,
                  threw |-> FALSE]

\* EvalRule with an allow-list key that is not configured letting nothing
\* through.
EvalRuleAbsentDenies(v, e, req, st, slot) ==
    LET p == e[slot]
        g == getCachedRegex(st.cache, p)
        value == Subject(v, slot, req)
    IN  IF st.denied \/ st.threw THEN st
        ELSE IF ~Configured(p)
             THEN IF IsAllowSlot(slot)
                  THEN [st EXCEPT !.denied = TRUE,
                                  !.reason = IF v # "index.js" THEN ReasonOf(slot)
                                             ELSE ""]
                  ELSE st
        ELSE IF ~g.regex
             THEN IF v = "index.js" THEN [st EXCEPT !.threw = TRUE] ELSE st
        ELSE IF Guarded(v, slot) /\ ~Truthy(value) THEN st
        ELSE LET t == CachedTest(g.cache, p, value)
                 deny == IF IsAllowSlot(slot) THEN ~t.found ELSE t.found
             IN  [cache |-> t.cache, denied |-> deny,
                  reason |-> IF deny /\ v # "index.js" THEN ReasonOf(slot) ELSE "",
                  threw |-> FALSE]

(***************************************************************************)
(* One rule of the access check, from the state st the earlier rules left. *)
(* A denial already found (or, in index.js, a SyntaxError already thrown)  *)
(* skips the rule.  index.js looks the RegExp up here; part_003/4 looked   *)
(* it up before the first rule.                                            *)
(***************************************************************************)
EvalRule(v, e, req, st, slot) ==
    LET p == e[slot]
        g == getCachedRegex(st.cache, p)
        value == Subject(v, slot, req)
    IN  IF st.denied \/ st.threw \/ ~Configured(p) THEN st
        ELSE IF ~g.regex
             THEN IF v = "index.js" THEN [st EXCEPT !.threw = TRUE] ELSE st
        ELSE IF Guarded(v, slot) /\ ~Truthy(value) THEN st
        ELSE LET t == CachedTest(g.cache, p, value)
                 deny == IF IsAllowSlot(slot) THEN ~t.found ELSE t.found
             IN  [cache |-> t.cache, denied |-> deny,
                  reason |-> IF deny /\ v # "index.js" THEN ReasonOf(slot) ELSE "",
                  threw |-> FALSE]

RECURSIVE EvalRules(_, _, _, _, _)
EvalRules(v, e, req, st, k) ==
    IF k > Len(RuleSlots) THEN st
    ELSE EvalRules(v, e, req, EvalRule(v, e, req, st, RuleSlots[k]), k + 1)

\* part_003/4: the seven getCachedRegex calls made before the first rule
RECURSIVE LookupAll(_, _, _)
LookupAll(e, cache, k) ==
    IF k > Len(RuleSlots) THEN cache
    ELSE LookupAll(e, getCachedRegex(cache, e[RuleSlots[k]]).cache, k + 1)

(***************************************************************************)
(* The access check of the handler: the cache it leaves, whether the       *)
(* request is denied and with which reason, and whether it threw.          *)
(* index.js starts its condition with !PROXY_HOSTNAME.                     *)
(***************************************************************************)
AccessCheck(v, e, req, backend, cache) ==
    IF v = "index.js"
    THEN IF backend = ""
         THEN [AccessStart(cache) EXCEPT !.denied = TRUE]
         ELSE EvalRules(v, e, req, AccessStart(cache), 1)
    ELSE EvalRules(v, e, req, AccessStart(LookupAll(e, cache, 1)), 1)

\* ------------------------------------------------------------ the headers

\* the headers of the model's requests, by their lower-case names
HeaderNames ==
    {"user-agent", "cf-connecting-ip", "cf-ipcountry", "range", "accept",
     "x-real-ip", "x-forwarded-for", "referer"}

\* request.headers.get(name): the value, or null
HeaderValue(req, name) ==
    CASE name = "user-agent" -> req.ua
      [] name = "cf-connecting-ip" -> req.ip
      [] name = "cf-ipcountry" -> req.country
      [] name = "range" -> req.range
      [] name = "accept" -> req.accept
      [] name = "x-real-ip" -> req.realIp
      [] name = "x-forwarded-for" -> req.forwardedFor
      [] name = "referer" -> req.referer

\* request.headers: the headers present, name -> value
RequestHeaders(req) ==
    [name \in {n \in HeaderNames : HeaderValue(req, n) # JSNull} |->
        HeaderValue(req, name)]

\* headers.set(name, value)
SetHeader(headers, name, value) == (name :> value) @@ headers

\* headers.delete(name) for each of the names
DeleteHeaders(headers, names) ==
    [name \in DOMAIN headers \ names |-> headers[name]]

(***************************************************************************)
(* value.replace(regex, to) with the g-flagged regex of the hostname       *)
(* "from" between word boundaries: every piece of the value that is the    *)
(* hostname is replaced.  (replace starts a g-flagged regex at 0, whatever *)
(* its lastIndex.)                                                         *)
(***************************************************************************)
ReplaceHost(value, from, to) ==
    [i \in DOMAIN value |-> IF value[i] = from THEN to ELSE value[i]]

\* the loop over the headers that replaces the hostname in every value
ReplaceHostInHeaders(headers, from, to) ==
    [name \in DOMAIN headers |-> ReplaceHost(headers[name], from, to)]

SensitiveHeaders == {"cf-connecting-ip", "x-real-ip", "x-forwarded-for"}

DockerHeaders ==
    {"docker-distribution-api-version", "docker-content-digest",
     "content-length", "content-type", "x-content-type-options",
     "cache-control", "www-authenticate", "authorization", "range",
     "accept-ranges"}

(***************************************************************************)
(* sanitizeHeaders(headers) of index.js: a copy without the forwarding     *)
(* headers, the Docker headers set again from the original, and the two    *)
(* security headers.                                                       *)
(***************************************************************************)
sanitizeHeaders(headers) ==
    LET kept == DeleteHeaders(headers, SensitiveHeaders)
        again == [name \in DOMAIN kept |->
                    IF name \in DockerHeaders /\ Truthy(headers[name])
                    THEN headers[name] ELSE kept[name]]
    IN  SetHeader(SetHeader(again, "x-content-type-options", <<"nosniff">>),
                  "referrer-policy", <<"strict-origin-when-cross-origin">>)

\* acceptTypes of a manifest request, in their order (joined with ", ")
ManifestAccept ==
    <<"application/vnd.docker.distribution.manifest.v2+json",
      "application/vnd.docker.distribution.manifest.list.v2+json",
      "application/vnd.oci.image.manifest.v1+json",
      "application/vnd.oci.image.index.v1+json",
      "application/vnd.docker.distribution.manifest.v1+prettyjws",
      "application/json",
      "*/*">>

\* acceptTypes of a blob request
BlobAccept ==
    <<"application/vnd.docker.image.rootfs.diff.tar.gzip",
      "application/vnd.docker.container.image.v1+json",
      "application/vnd.oci.image.layer.v1.tar+gzip",
      "application/vnd.oci.image.config.v1+json",
      "application/octet-stream",
      "*/*">>

TextManifests == <<"/", "m", "a", "n", "i", "f", "e", "s", "t", "s", "/">>
TextBlobs == <<"/", "b", "l", "o", "b", "s", "/">>
TextV2 == <<"/", "v", "2">>

\* createNewRequest without its last step: the Range header keeps the value
\* the substitution loop left.
createNewRequestRangeNotRestored(req, pathname, proxyHostname) ==
    LET h1 == sanitizeHeaders(RequestHeaders(req))
        h2 == IF Includes(pathname, TextBlobs)
              THEN SetHeader(h1, "x-amz-content-sha256", <<"UNSIGNED-PAYLOAD">>)
              ELSE h1
        h3 == ReplaceHostInHeaders(h2, OriginHost, proxyHostname)
        h4 == SetHeader(h3, "docker-distribution-api-version", <<"registry/2.0">>)
    IN  IF StartsWith(pathname, TextV2) /\ Includes(pathname, TextManifests)
        THEN SetHeader(h4, "accept", ManifestAccept)
        ELSE IF StartsWith(pathname, TextV2) /\ Includes(pathname, TextBlobs)
        THEN SetHeader(h4, "accept", BlobAccept)
        ELSE h4

\* createNewRequest setting the Accept of a manifest request only when the
\* client sent none.
createNewRequestKeepsClientAccept(req, pathname, proxyHostname) ==
    LET h1 == sanitizeHeaders(RequestHeaders(req))
        h2 == IF Includes(pathname, TextBlobs)
              THEN SetHeader(h1, "x-amz-content-sha256", <<"UNSIGNED-PAYLOAD">>)
              ELSE h1
        h3 == ReplaceHostInHeaders(h2, OriginHost, proxyHostname)
        h4 == SetHeader(h3, "docker-distribution-api-version", <<"registry/2.0">>)
        h5 == IF StartsWith(pathname, TextV2) /\ Includes(pathname, TextManifests)
              THEN IF "accept" \in DOMAIN h4 THEN h4
                   ELSE SetHeader(h4, "accept", ManifestAccept)
              ELSE IF StartsWith(pathname, TextV2) /\ Includes(pathname, TextBlobs)
              THEN SetHeader(h4, "accept", BlobAccept)
              ELSE h4
    IN  IF Truthy(req.range) THEN SetHeader(h5, "range", req.range) ELSE h5

(***************************************************************************)
(* createNewRequest(request, url, proxyHostname, originHostname) of        *)
(* index.js: the headers of the outbound request.  Sanitised copy, the S3  *)
(* header on a blob path, the origin hostname replaced by the backend in   *)
(* every value, the API version, the Accept list of a /v2 manifest or blob *)
(* path, and last the Range of the inbound request.                        *)
(***************************************************************************)
createNewRequest(req, pathname, proxyHostname) ==
    LET h1 == sanitizeHeaders(RequestHeaders(req))
        h2 == IF Includes(pathname, TextBlobs)
              THEN SetHeader(h1, "x-amz-content-sha256", <<"UNSIGNED-PAYLOAD">>)
              ELSE h1
        h3 == ReplaceHostInHeaders(h2, OriginHost, proxyHostname)
        h4 == SetHeader(h3, "docker-distribution-api-version", <<"registry/2.0">>)
        h5 == IF StartsWith(pathname, TextV2) /\ Includes(pathname, TextManifests)
              THEN SetHeader(h4, "accept", ManifestAccept)
              ELSE IF StartsWith(pathname, TextV2) /\ Includes(pathname, TextBlobs)
              THEN SetHeader(h4, "accept", BlobAccept)
              ELSE h4
    IN  IF Truthy(req.range) THEN SetHeader(h5, "range", req.range) ELSE h5

(***************************************************************************)
(* part_003/4, "Construct Upstream Request": a copy of all the request's   *)
(* headers, Host, X-Forwarded-Proto, X-Forwarded-For from cf-connecting-ip *)
(* when there is one, and the origin hostname replaced by the backend in   *)
(* every value.                                                            *)
(***************************************************************************)
upstreamHeaders(req, proxyHostname) ==
    LET h1 == SetHeader(RequestHeaders(req), "host", <<proxyHostname>>)
        h2 == SetHeader(h1, "x-forwarded-proto", <<"https">>)
        h3 == IF Truthy(req.ip) THEN SetHeader(h2, "x-forwarded-for", req.ip)
              ELSE h2
    IN  ReplaceHostInHeaders(h3, OriginHost, proxyHostname)

\* the headers of the request the handler sends to the backend
OutboundHeaders(v, req, backend) ==
    IF v = "index.js" THEN createNewRequest(req, req.pathname, backend)
    ELSE upstreamHeaders(req, backend)

\* ---------------------------------------------------------- the responses

(***************************************************************************)
(* A content-type value: type "/" subtype, the subtype as its labels       *)
(* between dots, and the parameters after ";" ("" when there are none).    *)
(* main = "" is a response without content-type.                           *)
(***************************************************************************)
MediaType(main, sub, params) == [main |-> main, sub |-> sub, params |-> params]

NoType == MediaType("", <<>>, "")
TypeJson == MediaType("application", <<"json">>, "")
TypeJsonUtf8 == MediaType("application", <<"json">>, "charset=utf-8")
TypeOctetStream == MediaType("application", <<"octet-stream">>, "")
TypeHtml == MediaType("text", <<"html">>, "")
TypeOciManifest ==
    MediaType("application", <<"vnd", "oci", "image", "manifest", "v1+json">>, "")

\* contentType.includes('application/octet-stream'), ('application/vnd.docker.'),
\* ('application/vnd.oci.') and ('text/') of processResponseBody
IncludesOctetStream(ct) ==
    ct.main = "application" /\ Len(ct.sub) >= 1 /\ ct.sub[1] = "octet-stream"

IncludesVendor(ct, vendor) ==
    /\ ct.main = "application"
    /\ Len(ct.sub) >= 3
    /\ ct.sub[1] = "vnd" /\ ct.sub[2] = vendor

IncludesText(ct) == ct.main = "text"

\* REWRITABLE_CONTENT_TYPES of part_003/4
REWRITABLE_CONTENT_TYPES ==
    { MediaType("application", <<"json">>, ""),
      MediaType("application", <<"vnd", "docker", "distribution", "manifest", "v1+json">>, ""),
      MediaType("application", <<"vnd", "docker", "distribution", "manifest", "v2+json">>, ""),
      MediaType("application", <<"vnd", "docker", "distribution", "manifest", "list", "v2+json">>, ""),
      MediaType("application", <<"vnd", "oci", "image", "manifest", "v1+json">>, ""),
      MediaType("application", <<"vnd", "oci", "image", "index", "v1+json">>, "") }

\* contentType.split(';')[0].trim()
WithoutParams(ct) == MediaType(ct.main, ct.sub, "")

\* a content-length value is the text of the header, null when absent
Digits == <<"0", "1", "2", "3", "4", "5", "6", "7", "8", "9">>

IsDigit(ch) == \E d \in DOMAIN Digits : Digits[d] = ch

DigitValue(ch) == (CHOOSE d \in DOMAIN Digits : Digits[d] = ch) - 1

\* the decimal value of a run of digits
RECURSIVE DecimalValue(_)
DecimalValue(text) ==
    IF text = <<>> THEN 0
    ELSE 10 * DecimalValue(SubSeq(text, 1, Len(text) - 1))
         + DigitValue(text[Len(text)])

\* parseInt(text, 10): the value of the digits the text starts with, and NaN
\* (here -1) when it starts with none
parseInt(text) ==
    LET run == {n \in 0..Len(text) : \A k \in 1..n : IsDigit(text[k])}
        n == CHOOSE x \in run : \A y \in run : y <= x
    IN  IF n = 0 THEN -1 ELSE DecimalValue(SubSeq(text, 1, n))

(***************************************************************************)
(* A www-authenticate challenge, scheme realm="protocol://host path",      *)
(* service="service"; scheme = "" is a response without the header.        *)
(***************************************************************************)
Challenge(host, service) ==
    [scheme |-> "Bearer",
     realm |-> [protocol |-> "https", host |-> host, path |-> "/token?account=a"],
     service |-> service]

NoChallenge ==
    [scheme |-> "", realm |-> [protocol |-> "", host |-> "", path |-> ""],
     service |-> ""]

\* a body: the text https://host path, and no body at all
Body(host, path) == [host |-> host, path |-> path]
NoBody == Body("", <<>>)

\* no response (yet)
NoResponse ==
    [status |-> 0, contentType |-> NoType, contentLength |-> JSNull,
     challenge |-> NoChallenge, body |-> NoBody, added |-> {}]

UpstreamResponse(status, ct, length, challenge, body) ==
    [status |-> status, contentType |-> ct, contentLength |-> length,
     challenge |-> challenge, body |-> body, added |-> {}]

\* the hostname of the auth service that docker.io names in its challenges,
\* and a host that is no backend of the proxy
DockerAuthHost == "auth.docker.io"
OtherHost == "login.example"

\* the body of the model's responses: a link to the backend's /v2/
LinkPath == <<"/", "v", "2", "/">>

\* ------------------------------------------------------------ the handler

\* no request yet
NoRequest ==
    [pc |-> "idle", id |-> 0,
     req |-> BareRequest(PathManifest), outbound |-> <<>>,
     upstream |-> NoResponse, response |-> NoResponse,
     validated |-> FALSE, checked |-> FALSE, denied |-> FALSE, reason |-> "",
     backend |-> "", forwarded |-> FALSE, upstreamCalls |-> 0, attempt |-> 0,
     status |-> 0,
     errorType |-> "", rejected |-> FALSE,
     errorKey |-> "", ownHeaders |-> {},
     outcomes |-> <<>>, delays |-> <<>>,
     before |-> [retries |-> 0, timeouts |-> 0, errors |-> 0, bytes |-> 0]]

\* the retries argument of fetchWithTimeout
MaxRetriesOf(e) == IF e.MAX_RETRIES = -1 THEN DefaultMaxRetries ELSE e.MAX_RETRIES

\* the handler returns a response
Respond(c, status, errorType) ==
    [c EXCEPT !.pc = "done", !.status = status, !.errorType = errorType]

\* the headers the catch block puts on the response it builds: index.js a
\* JSON body with Content-Type and X-Request-ID, part_003/4 a text body
ErrorHeaders(v) ==
    IF v = "index.js" THEN {"content-type", "x-request-id"} ELSE {"content-type"}

(***************************************************************************)
(* The catch block of the handler, for an error with the given statusCode  *)
(* and errorType ("" and 0 when the error has none): recordError, then the *)
(* response.  index.js ends the timing in the catch block, part_003/4 in   *)
(* the finally block; the error responses carry no content-length.         *)
(***************************************************************************)
Caught(v, m, c, statusCode, errorType) ==
    [metrics |-> recordRequestEnd(recordError(m), c.id, 0),
     cur |-> Respond([c EXCEPT !.ownHeaders = ErrorHeaders(v)],
                     IF statusCode = 0 THEN 500 ELSE statusCode,
                     IF errorType = "" /\ v = "index.js" THEN "UNKNOWN_ERROR"
                     ELSE errorType)]

\* the headers of the response of the denial branch: a redirect, or a page
DenialHeaders(e) == IF e.URL302 # "" THEN {"location"} ELSE {"content-type"}

\* Denied with its return missing: the handler goes on to the outbound
\* fetch.
DeniedThenForwarded(v, e, m, c) ==
    [metrics |-> recordError(m),
     cur |-> [c EXCEPT !.pc = "fetching", !.forwarded = TRUE,
                       !.upstreamCalls = 1]]

(***************************************************************************)
(* The denial branch.  index.js: recordError, then a redirect or the nginx *)
(* page, which new Response sends with the default status 200, and no      *)
(* recordRequestEnd.  part_003/4: recordDenied, recordError, a redirect or *)
(* a 403, and recordRequestEnd in the finally block.  Response.redirect    *)
(* throws a TypeError for a URL it cannot parse, which lands in catch.     *)
(***************************************************************************)
Denied(v, e, m, c) ==
    LET m1 == IF v = "index.js" THEN recordError(m)
              ELSE recordError(recordDenied(m))
    IN  IF e.URL302 # "" /\ ~IsAbsoluteUrl(e.URL302)
        THEN Caught(v, m1, c, 0, "")
        ELSE IF v = "index.js"
        THEN [metrics |-> m1,
              cur |-> Respond([c EXCEPT !.ownHeaders = DenialHeaders(e)],
                              IF e.URL302 # "" THEN 302 ELSE 200,
                              "ACCESS_DENIED")]
        ELSE [metrics |-> recordRequestEnd(m1, c.id, 0),
              cur |-> Respond([c EXCEPT !.ownHeaders = DenialHeaders(e)],
                              IF e.URL302 # "" THEN 302 ELSE 403,
                              "ACCESS_DENIED")]

(***************************************************************************)
(* fetch(request, env, ctx) up to its first await: recordRequestStart,     *)
(* validateConfig, routing, the access check and, for a request let        *)
(* through, the first outbound fetch.  Gives the cache, the metrics and    *)
(* the request record the handler leaves.                                  *)
(***************************************************************************)
HandleStart(v, e, cache, m, id, req) ==
    LET m1 == recordRequestStart(m, id)
        bad == validateConfig(v, e)
        backend == Route(v, e, req.pathname)
        a == AccessCheck(v, e, req, backend, cache)
        c0 == [NoRequest EXCEPT !.id = id, !.req = req,
                                !.before = [retries |-> m.retries,
                                            timeouts |-> m.timeouts,
                                            errors |-> m.errors,
                                            bytes |-> m.bytesTransferred]]
        c1 == [c0 EXCEPT !.validated = TRUE, !.checked = ~a.threw,
                         !.backend = backend,
                         !.denied = a.denied, !.reason = a.reason]
    IN  IF bad # ""
        THEN [cache |-> cache] @@
             Caught(v, m1, [c0 EXCEPT !.errorKey = bad], 500, "CONFIG_ERROR")
        ELSE IF a.threw
        THEN [cache |-> a.cache] @@ Caught(v, m1, c1, 0, "")
        ELSE IF a.denied
        THEN [cache |-> a.cache] @@ Denied(v, e, m1, c1)
        ELSE [cache |-> a.cache, metrics |-> m1,
              cur |-> [c1 EXCEPT !.pc = "fetching", !.forwarded = TRUE,
                          !.outbound = OutboundHeaders(v, req, backend),
                          !.upstreamCalls =
                              IF v = "index.js" /\ MaxRetriesOf(e) <= 0
                              THEN 0 ELSE 1]]

\* -------------------------------------------------------------- upstream

(***************************************************************************)
(* What one outbound fetch may come to: a 2xx response, a 401, another     *)
(* response that is not ok, the abort by the attempt's timer, a transport  *)
(* error.  part_003/4 set no timer, so their fetch is never aborted.       *)
(***************************************************************************)
Outcomes == {"ok", "unauthorized", "notOk", "abort", "networkError"}

StatusOf(outcome) ==
    CASE outcome = "ok" -> 200
      [] outcome = "unauthorized" -> 401
      [] outcome = "notOk" -> 503

\* the host a challenge's realm must name for part_003/4 to rewrite it, and
\* the auth host index.js looks for
AuthBackend(v, e) ==
    IF v = "index.js" THEN DockerAuthHost
    ELSE OrDefault(e.AUTH_PROXY_HOSTNAME, DockerAuthHost)

(***************************************************************************)
(* The responses an outbound fetch may bring.  Every body links to the     *)
(* backend; a 401 carries a challenge whose realm is at the auth host or   *)
(* elsewhere and whose service is docker.io's name or the backend.         *)
(***************************************************************************)
UpstreamResponses(v, e, backend, outcome) ==
    LET body == Body(backend, LinkPath)
    IN  CASE outcome = "ok" ->
               { UpstreamResponse(200, TypeJson, <<"4", "2">>, NoChallenge, body),
                 UpstreamResponse(200, TypeJsonUtf8, JSNull, NoChallenge, body),
                 UpstreamResponse(200, TypeOctetStream, <<"4", "2">>, NoChallenge, body),
                 UpstreamResponse(200, TypeHtml, JSNull, NoChallenge, body),
                 UpstreamResponse(200, TypeOciManifest, <<"4", "2">>, NoChallenge, body) }
          [] outcome = "unauthorized" ->
               { UpstreamResponse(401, TypeJson, <<"4", "2">>,
                                  Challenge(AuthBackend(v, e), "registry.docker.io"), body),
                 UpstreamResponse(401, TypeJson, JSNull,
                                  Challenge(AuthBackend(v, e), backend), body),
                 UpstreamResponse(401, TypeJson, JSNull,
                                  Challenge(OtherHost, "registry.docker.io"), body) }
          [] outcome = "notOk" ->
               { UpstreamResponse(503, TypeHtml, JSNull, NoChallenge, body) }
          [] OTHER -> {NoResponse}

\* value.replace(regex of the hostname, to) on a challenge: its realm's host
\* and its service are the pieces that may be the hostname
RewriteChallenge(ch, from, to) ==
    IF ch.scheme = "" THEN ch
    ELSE [ch EXCEPT !.realm.host = IF @ = from THEN to ELSE @,
                    !.service = IF @ = from THEN to ELSE @]

(***************************************************************************)
(* processResponseBody of index.js: the response as it is unless its       *)
(* content-type has text/ in it; else the backend hostname in the body is  *)
(* replaced, when PATHNAME_REGEX is set only where the pattern (without    *)
(* its leading ^) matches right after the hostname.                        *)
(***************************************************************************)
processResponseBody(resp, proxyHostname, pathnameRegex) ==
    LET ct == resp.contentType
    IN  IF \/ IncludesOctetStream(ct)
           \/ IncludesVendor(ct, "docker")
           \/ IncludesVendor(ct, "oci")
           \/ ~IncludesText(ct)
        THEN resp
        ELSE [resp EXCEPT !.body =
                IF /\ @.host = proxyHostname
                   /\ Configured(pathnameRegex) =>
                        MatchesAt([pathnameRegex EXCEPT !.anchor = FALSE], @.path, 0)
                THEN Body(OriginHost, @.path)
                ELSE @]

(***************************************************************************)
(* setResponseHeaders of index.js: sanitised headers, the backend hostname *)
(* replaced in every value, then auth.docker.io, registry-1.docker.io and  *)
(* index.docker.io replaced in www-authenticate, each by the origin.       *)
(***************************************************************************)
setResponseHeaders(resp, proxyHostname) ==
    LET c1 == RewriteChallenge(resp.challenge, proxyHostname, OriginHost)
        c2 == RewriteChallenge(c1, "auth.docker.io", OriginHost)
        c3 == RewriteChallenge(c2, "registry-1.docker.io", OriginHost)
        c4 == RewriteChallenge(c3, "index.docker.io", OriginHost)
    IN  [resp EXCEPT !.challenge = c4,
                     !.added = {"x-content-type-options", "referrer-policy"}]

\* the response index.js returns for the response fetchWithTimeout gave: a
\* 401 keeps its body, any other goes through processResponseBody first
IndexResponse(e, c) ==
    IF c.upstream.status = 401
    THEN setResponseHeaders(c.upstream, c.backend)
    ELSE setResponseHeaders(
             processResponseBody(c.upstream, c.backend, e.PATHNAME_REGEX),
             c.backend)

(***************************************************************************)
(* The hostname-replacing stream of part_003/4 on a body that arrives in   *)
(* one chunk shorter than 1024 characters without a newline: transform     *)
(* buffers it, flush replaces the hostname in it and emits it.             *)
(***************************************************************************)
HostnameReplacingStream(body, proxyHostname) ==
    IF body.host = proxyHostname THEN Body(OriginHost, body.path) ELSE body

(***************************************************************************)
(* part_003/4, "Process Final Response Headers" and "Handle Final Response *)
(* Body": the backend hostname replaced in every header value; the realm   *)
(* of www-authenticate moved to the origin when its host is the auth host  *)
(* (part_003: of a 401 only); the body piped through the replacing stream  *)
(* when the content-type without parameters is a rewritable one.           *)
(***************************************************************************)
StreamedResponse(v, e, c) ==
    LET resp == c.upstream
        c1 == RewriteChallenge(resp.challenge, c.backend, OriginHost)
        c2 == IF /\ c1.scheme # ""
                 /\ v = "part_003" => resp.status = 401
                 /\ c1.realm.host = OrDefault(e.AUTH_PROXY_HOSTNAME, DockerAuthHost)
              THEN [c1 EXCEPT !.realm.protocol = "https",
                              !.realm.host = OriginHost]
              ELSE c1
        body == IF v = "part_003" /\ resp.body = NoBody THEN NoBody
                ELSE IF WithoutParams(resp.contentType) \in REWRITABLE_CONTENT_TYPES
                THEN HostnameReplacingStream(resp.body, c.backend)
                ELSE resp.body
    IN  [resp EXCEPT !.challenge = c2, !.body = body,
                     !.added = {"x-proxy-powered-by"}]

\* recordRequestEnd of part_003/4: the content-length of the response, when
\* it has one that parseInt reads as a number
LengthOf(resp) ==
    IF Truthy(resp.contentLength) /\ parseInt(resp.contentLength) # -1
    THEN parseInt(resp.contentLength)
    ELSE 0

(***************************************************************************)
(* The handler after fetchWithTimeout (index.js) or fetch (part_003/4)     *)
(* gave the response c.upstream: the rewritten response goes out with the  *)
(* upstream status.  index.js ends the timing without a byte count,        *)
(* part_003/4 pass the final response to recordRequestEnd.                 *)
(***************************************************************************)
Forwarded(v, e, m, c, status) ==
    LET r == IF v = "index.js" THEN IndexResponse(e, c)
             ELSE StreamedResponse(v, e, c)
    IN  [metrics |-> recordRequestEnd(m, c.id,
                                      IF v = "index.js" THEN 0 ELSE LengthOf(r)),
         cur |-> Respond([c EXCEPT !.response = r], status, "")]

\* fetchWithTimeout with a 401 handled like any response that is not ok: it
\* is retried while attempts remain.
fetchWithTimeoutRetries401(e, m, c, outcome) ==
    LET i == c.attempt
        retries == MaxRetriesOf(e)
        c1 == [c EXCEPT !.outcomes = Append(@, outcome)]
        again == [metrics |-> recordRetry(m),
                  cur |-> [c1 EXCEPT !.attempt = i + 1,
                                     !.delays = Append(@, 1000 * (i + 1)),
                                     !.upstreamCalls = @ + 1]]
    IN  CASE outcome = "ok" -> Forwarded("index.js", e, m, c1, StatusOf(outcome))
          [] outcome \in {"notOk", "unauthorized"} ->
                IF i < retries - 1 THEN again
                ELSE Forwarded("index.js", e, m, c1, StatusOf(outcome))
          [] outcome = "abort" ->
                Caught("index.js", recordTimeout(m), c1, 504, "REQUEST_TIMEOUT")
          [] outcome = "networkError" ->
                IF i = retries - 1 THEN Caught("index.js", m, c1, 0, "")
                ELSE again

\* fetchWithTimeout with metrics.recordRetry() missing where a response that
\* is not ok is retried.
fetchWithTimeoutUncountedRetry(e, m, c, outcome) ==
    LET i == c.attempt
        retries == MaxRetriesOf(e)
        c1 == [c EXCEPT !.outcomes = Append(@, outcome)]
        next == [c1 EXCEPT !.attempt = i + 1,
                           !.delays = Append(@, 1000 * (i + 1)),
                           !.upstreamCalls = @ + 1]
    IN  CASE outcome = "unauthorized" -> Forwarded("index.js", e, m, c1, 401)
          [] outcome = "ok" -> Forwarded("index.js", e, m, c1, StatusOf(outcome))
          [] outcome = "notOk" ->
                IF i < retries - 1 THEN [metrics |-> m, cur |-> next]
                ELSE Forwarded("index.js", e, m, c1, StatusOf(outcome))
          [] outcome = "abort" ->
                Caught("index.js", recordTimeout(m), c1, 504, "REQUEST_TIMEOUT")
          [] outcome = "networkError" ->
                IF i = retries - 1 THEN Caught("index.js", m, c1, 0, "")
                ELSE [metrics |-> recordRetry(m), cur |-> next]

(***************************************************************************)
(* One iteration of the loop of fetchWithTimeout, attempt i = c.attempt,   *)
(* with what the handler does when the loop ends in it.  A retry counts,   *)
(* waits 1000 * (i + 1) ms and issues the next fetch.                      *)
(***************************************************************************)
\* fetchWithTimeout that retries transport errors only: a response that is
\* not ok is returned whatever the attempt.
fetchWithTimeoutReturnsNotOk(e, m, c, outcome) ==
    LET i == c.attempt
        retries == MaxRetriesOf(e)
        c1 == [c EXCEPT !.outcomes = Append(@, outcome)]
        again == [metrics |-> recordRetry(m),
                  cur |-> [c1 EXCEPT !.attempt = i + 1,
                                     !.delays = Append(@, 1000 * (i + 1)),
                                     !.upstreamCalls = @ + 1]]
    IN  CASE outcome \in {"unauthorized", "ok", "notOk"} ->
                Forwarded("index.js", e, m, c1, StatusOf(outcome))
          [] outcome = "abort" ->
                Caught("index.js", recordTimeout(m), c1, 504, "REQUEST_TIMEOUT")
          [] outcome = "networkError" ->
                IF i = retries - 1 THEN Caught("index.js", m, c1, 0, "")
                ELSE again

fetchWithTimeout(e, m, c, outcome) ==
    LET i == c.attempt
        retries == MaxRetriesOf(e)
        c1 == [c EXCEPT !.outcomes = Append(@, outcome)]
        again == [metrics |-> recordRetry(m),
                  cur |-> [c1 EXCEPT !.attempt = i + 1,
                                     !.delays = Append(@, 1000 * (i + 1)),
                                     !.upstreamCalls = @ + 1]]
    IN  CASE outcome = "unauthorized" -> Forwarded("index.js", e, m, c1, 401)
          [] outcome = "ok" -> Forwarded("index.js", e, m, c1, StatusOf(outcome))
          [] outcome = "notOk" ->
                IF i < retries - 1 THEN again
                ELSE Forwarded("index.js", e, m, c1, StatusOf(outcome))
          [] outcome = "abort" ->
                Caught("index.js", recordTimeout(m), c1, 504, "REQUEST_TIMEOUT")
          [] outcome = "networkError" ->
                IF i = retries - 1 THEN Caught("index.js", m, c1, 0, "")
                ELSE again

\* part_003/4: await fetch(upstreamRequest), once
fetchOnce(v, e, m, c, outcome) ==
    LET c1 == [c EXCEPT !.outcomes = Append(@, outcome)]
    IN  IF outcome = "networkError" THEN Caught(v, m, c1, 0, "")
        ELSE Forwarded(v, e, m, c1, StatusOf(outcome))

\* ------------------------------------------- the hostname-replacing stream

\* the characters \w of a RegExp
WordChars ==
    {UpperCase[k] : k \in DOMAIN UpperCase} \cup {LowerCase[k] : k \in DOMAIN LowerCase}
    \cup {"0", "1", "2", "3", "4", "5", "6", "7", "8", "9", "_"}

\* \b between the characters i and i + 1 of the text (i = 0: before the first)
WordBoundary(text, i) ==
    LET before == i >= 1 /\ text[i] \in WordChars
        after == i < Len(text) /\ text[i + 1] \in WordChars
    IN  before # after

(***************************************************************************)
(* The RegExp \bhost\b, built from the hostname as it is, matches at the   *)
(* 0-based position i: a "." of the hostname matches any character but a   *)
(* line end; with the lookbehind (?<!\.) of index.js the match may not     *)
(* follow a ".".                                                           *)
(***************************************************************************)
HostMatchesAt(text, host, i, lookbehind) ==
    /\ i + Len(host) <= Len(text)
    /\ \A k \in 1..Len(host) :
          IF host[k] = "." THEN text[i + k] \notin {"\n", "\r"}
          ELSE text[i + k] = host[k]
    /\ WordBoundary(text, i)
    /\ WordBoundary(text, i + Len(host))
    /\ lookbehind => (i = 0 \/ text[i] # ".")

\* the text from position from on, with the matches that start at one of
\* starts replaced, left to right, a match inside a replaced one skipped
RECURSIVE Splice(_, _, _, _, _)
Splice(text, starts, from, width, to) ==
    LET later == {i \in starts : i >= from}
    IN  IF later = {} THEN SubSeq(text, from + 1, Len(text))
        ELSE LET i == SetMin(later)
             IN  SubSeq(text, from + 1, i) \o to
                 \o Splice(text, starts, i + width, width, to)

\* text.replace(regex, to) with the g-flagged hostname regex
ReplaceAll(text, host, to, lookbehind) ==
    Splice(text,
           {i \in 0..(Len(text) - Len(host)) :
               HostMatchesAt(text, host, i, lookbehind)},
           0, Len(host), to)

\* text.lastIndexOf('\n'), 0-based, -1 when there is none
LastNewline(text) ==
    LET at == {i \in 1..Len(text) : text[i] = "\n"}
    IN  IF at = {} THEN -1 ELSE (CHOOSE i \in at : \A j \in at : j <= i) - 1

\* text.substring(from, to) and text.substring(from), 0-based
Substring(text, from, to) ==
    LET a == IF from < 0 THEN 0 ELSE IF from > Len(text) THEN Len(text) ELSE from
        b == IF to < 0 THEN 0 ELSE IF to > Len(text) THEN Len(text) ELSE to
    IN  IF a <= b THEN SubSeq(text, a + 1, b) ELSE SubSeq(text, b + 1, a)

SubstringFrom(text, from) == Substring(text, from, Len(text))

\* the buffer lengths and the cut points of the two streams
SoftLimit == 1024
KeptTail == 128
NewlineLimit == 512
CutAt == 800

(***************************************************************************)
(* transform(chunk) of createSimpleHostnameReplacingStream (part_003): the *)
(* buffer grows by the chunk; up to the last newline, or up to 128 before  *)
(* the end of a buffer above 1024 without one, is cut off, replaced and    *)
(* enqueued; the rest stays.  Gives the buffer and what is enqueued.       *)
(***************************************************************************)
SimpleTransform(buffer, chunk, host, to) ==
    LET all == buffer \o chunk
        newline == LastNewline(all)
        upTo == IF newline = -1 /\ Len(all) > SoftLimit
                THEN Len(all) - KeptTail ELSE newline
    IN  IF upTo # -1
        THEN [buffer |-> SubstringFrom(all, upTo + 1),
              out |-> <<ReplaceAll(Substring(all, 0, upTo + 1), host, to, FALSE)>>]
        ELSE [buffer |-> all, out |-> <<>>]

(***************************************************************************)
(* transform(chunk) of createHostnameReplacingStream (part_004): the whole *)
(* buffer is replaced; above 512 with a newline it is cut after the last   *)
(* newline, above 1024 at 800, and what stays is the replaced text.        *)
(***************************************************************************)
BufferTransform(buffer, chunk, host, to) ==
    LET all == buffer \o chunk
        processed == ReplaceAll(all, host, to, FALSE)
        newline == LastNewline(processed)
    IN  IF newline # -1 /\ Len(all) > NewlineLimit
        THEN [buffer |-> SubstringFrom(processed, newline + 1),
              out |-> <<Substring(processed, 0, newline + 1)>>]
        ELSE IF Len(all) > SoftLimit
        THEN [buffer |-> SubstringFrom(processed, CutAt),
              out |-> <<Substring(processed, 0, CutAt)>>]
        ELSE [buffer |-> all, out |-> <<>>]

\* flush() of both streams: the buffer replaced and enqueued unless empty
StreamFlush(buffer, host, to) ==
    LET final == ReplaceAll(buffer, host, to, FALSE)
    IN  IF final # <<>> THEN <<final>> ELSE <<>>

\* n times the character x
Filler(n) == [i \in 1..n |-> "x"]

\* the backend hostname b.io with the origins m.io, a.b.io and b.io.cn
HostB == <<"b", ".", "i", "o">>
HostPairs ==
    { [host |-> HostB, origin |-> <<"m", ".", "i", "o">>],
      [host |-> HostB, origin |-> <<"a", ".", "b", ".", "i", "o">>],
      [host |-> HostB, origin |-> <<"b", ".", "i", "o", ".", "c", "n">>] }

(***************************************************************************)
(* The bodies: short ones with a newline, with the hostname twice, with a  *)
(* text the hostname's regex matches although it is not the hostname, and  *)
(* without any of it; and two of 1030 characters without a newline, the    *)
(* hostname lying across character 903 in one and following an x at        *)
(* character 800 in the other.                                             *)
(***************************************************************************)
Bodies ==
    { <<"x", " ">> \o HostB \o <<"\n", "y">>,
      HostB \o <<"/">> \o HostB,
      <<"b", "-", "i", "o", " ", "z">>,
      <<"a", "b", "\n", "c", "d">>,
      Filler(900) \o <<" ">> \o HostB \o <<" ">> \o Filler(124),
      Filler(800) \o HostB \o <<" ">> \o Filler(225) }

\* lengths of the chunks a body arrives in, besides all that is left of it
ChunkLengths == {1, 2, 3}

\* chunks one body arrives in at most
MaxChunks == 4

NoStream ==
    [pc |-> "none", host |-> <<>>, origin |-> <<>>, body |-> <<>>,
     rest |-> <<>>, buffer |-> <<>>, emitted |-> <<>>, chunks |-> 0,
     largest |-> 0]

\* all that the stream enqueued, concatenated
RECURSIVE Concat(_)
Concat(chunks) ==
    IF chunks = <<>> THEN <<>> ELSE Head(chunks) \o Concat(Tail(chunks))

\* ----------------------------------------------------------- WorkerLogger

maxLogsPerRequest == 100

\* what the console has been given: the entries as a bag, and the last one
NoEntry == [method |-> "", level |-> "", event |-> ""]

\* new WorkerLogger(requestId)
NoLogger == [logCount |-> 0, calls |-> 0, console |-> EmptyBag, last |-> NoEntry]

LimitWarning == [method |-> "warn", level |-> "warn", event |-> "log_limit_reached"]

\* the console method the switch on the level chooses
ConsoleMethod(level) ==
    CASE level = "error" -> "error"
      [] level = "warn"  -> "warn"
      [] level = "debug" -> "debug"
      [] OTHER           -> "log"

Emit(l, entry) ==
    [l EXCEPT !.console = @ (+) SetToBag({entry}), !.last = entry]

\* _log with the counter left alone after the warning
logWarningNotCounted(l, level, event) ==
    LET called == [l EXCEPT !.calls = @ + 1]
    IN  IF l.logCount >= maxLogsPerRequest
        THEN IF l.logCount = maxLogsPerRequest
             THEN Emit(called, LimitWarning)
             ELSE called
        ELSE Emit([called EXCEPT !.logCount = @ + 1],
                  [method |-> ConsoleMethod(level), level |-> level, event |-> event])

\* _log(level, event, data)
log(l, level, event) ==
    LET called == [l EXCEPT !.calls = @ + 1]
    IN  IF l.logCount >= maxLogsPerRequest
        THEN IF l.logCount = maxLogsPerRequest
             THEN Emit([called EXCEPT !.logCount = @ + 1], LimitWarning)
             ELSE called
        ELSE Emit([called EXCEPT !.logCount = @ + 1],
                  [method |-> ConsoleMethod(level), level |-> level, event |-> event])

\* the calls of _log made by the methods of the logger
LogCalls ==
    { [level |-> "info",  event |-> "request_start"],
      [level |-> "warn",  event |-> "access_denied"],
      [level |-> "error", event |-> "request_error"] }

MaxCalls == 103

\* ------------------------------------------------ two requests in flight

NoFlight == [pc |-> "none"]

\* MAX_RETRIES while two requests are in flight
FlightRetries == 2

\* the readings of the clock (Date.now(), performance.now())
MaxClock == 3

\* the cf-request-id header of a request: absent, or a value of the client
RequestIdHeaders == {"", "r-1"}

\* crypto.randomUUID() called for the n-th request: a value no other call gives
randomUUID(n) == IF n = 1 THEN "uuid-1" ELSE "uuid-2"

\* const requestId = ...: index.js draws a UUID, part_003 and part_004 take
\* the cf-request-id header when the request has one
requestIdOf(v, n, header) ==
    IF v # "index.js" /\ header # "" THEN header ELSE randomUUID(n)

NewFlightRequest(header) ==
    [pc |-> "new", header |-> header, id |-> "", started |-> 0, ended |-> 0,
     attempt |-> 0, timers |-> {}, aborted |-> {}, signal |-> -1,
     timedOut |-> FALSE, duration |-> -1]

\* requestTimings.set(requestId, Date.now())
timingSet(timings, id, now) ==
    [k \in DOMAIN timings \cup {id} |-> IF k = id THEN now ELSE timings[k]]

\* requestTimings.delete(requestId)
timingDelete(timings, id) == [k \in DOMAIN timings \ {id} |-> timings[k]]

\* const duration = startTime ? Date.now() - startTime : 0
durationOf(timings, id, now) ==
    IF id \in DOMAIN timings /\ timings[id] # 0 THEN now - timings[id] ELSE 0

\* the head of an iteration of fetchWithTimeout: a new AbortController, its
\* timer armed, fetch called with its signal; part_003/4 call fetch plainly
startAttempt(v, r, i) ==
    IF v = "index.js"
    THEN [r EXCEPT !.pc = "fetching", !.attempt = i,
                   !.timers = @ \cup {i}, !.signal = i]
    ELSE [r EXCEPT !.pc = "fetching"]

\* clearTimeout(timeoutId) of attempt i
clearTimeout(r, i) == [r EXCEPT !.timers = @ \ {i}]

\* attemptSettles with the timer of a retried attempt left armed
attemptSettlesTimerKept(v, e, r, outcome) ==
    LET i == r.attempt
    IN  IF v # "index.js" THEN [r EXCEPT !.pc = "returning"]
        ELSE IF \/ outcome \in {"ok", "unauthorized"}
                \/ i >= MaxRetriesOf(e) - 1
             THEN [clearTimeout(r, i) EXCEPT !.pc = "returning"]
             ELSE [r EXCEPT !.pc = "waiting"]

\* the fetch of attempt i settles with a response or a transport error:
\* the timer is cleared, then the response is returned, the error thrown,
\* or the backoff delay waited
attemptSettles(v, e, r, outcome) ==
    LET i == r.attempt
        cleared == clearTimeout(r, i)
    IN  IF v # "index.js" THEN [r EXCEPT !.pc = "returning"]
        ELSE IF \/ outcome \in {"ok", "unauthorized"}
                \/ i >= MaxRetriesOf(e) - 1
             THEN [cleared EXCEPT !.pc = "returning"]
             ELSE [cleared EXCEPT !.pc = "waiting"]

\* the callback of timer t runs: controller t aborts; a fetch listening to
\* its signal rejects with AbortError and the catch block clears the timer
timerFires(r, t) ==
    LET fired == [r EXCEPT !.timers = @ \ {t}, !.aborted = @ \cup {t}]
    IN  IF r.pc = "fetching" /\ r.signal = t
        THEN [clearTimeout(fired, r.attempt) EXCEPT !.pc = "returning",
                                                    !.timedOut = TRUE]
        ELSE fired

\* the handler returns: metrics.recordRequestEnd(requestId)
flightEnds(f, n, r) ==
    [f EXCEPT !.timings = timingDelete(@, r.id),
              !.reqs[n] = [r EXCEPT !.pc = "done", !.ended = f.clock,
                                    !.duration = durationOf(f.timings, r.id, f.clock)]]

\* the step of request n that left it as r: it goes on, or the handler returns
flightStep(f, n, r) ==
    IF r.pc = "returning" THEN flightEnds(f, n, r)
    ELSE [f EXCEPT !.reqs[n] = r]

\* the state of the handler run while another specification runs
HandlerIdleWith(retries) ==
    /\ env = NoRules @@ Settings("registry.example", "", retries)
    /\ regexCache = <<>>
    /\ metrics = NewMetrics
    /\ cur = NoRequest
    /\ served = 0
    /\ tally = [errors |-> 0, timeouts |-> 0, retries |-> 0]

HandlerIdle == HandlerIdleWith(1)

handler == <<variant, env, regexCache, metrics, cur, served, tally>>

\* a body is about to be piped through the stream of part_003 or part_004
InitStream ==
    /\ variant \in {"part_003", "part_004"}
    /\ HandlerIdle
    /\ \E pair \in HostPairs, body \in Bodies :
          stream = [NoStream EXCEPT !.pc = "open", !.host = pair.host,
                                    !.origin = pair.origin, !.body = body,
                                    !.rest = body]
    /\ logger = NoLogger
    /\ flight = NoFlight

\* the next chunk of the body arrives: transform(chunk, controller)
Transform ==
    /\ stream.pc = "open"
    /\ stream.rest # <<>>
    /\ \E n \in ChunkLengths \cup {Len(stream.rest)} :
         /\ n <= Len(stream.rest)
         /\ stream.chunks < MaxChunks - 1 \/ n = Len(stream.rest)
         /\ LET chunk == SubSeq(stream.rest, 1, n)
                t == IF variant = "part_003"
                     THEN SimpleTransform(stream.buffer, chunk, stream.host, stream.origin)
                     ELSE BufferTransform(stream.buffer, chunk, stream.host, stream.origin)
            IN  stream' = [stream EXCEPT
                             !.rest = SubSeq(@, n + 1, Len(@)),
                             !.buffer = t.buffer,
                             !.emitted = @ \o t.out,
                             !.chunks = @ + 1,
                             !.largest = IF n > @ THEN n ELSE @]
    /\ UNCHANGED <<handler, logger, flight>>

\* the body has ended: flush(controller)
Flush ==
    /\ stream.pc = "open"
    /\ stream.rest = <<>>
    /\ stream' = [stream EXCEPT
                    !.pc = "closed",
                    !.emitted = @ \o StreamFlush(stream.buffer, stream.host, stream.origin),
                    !.buffer = <<>>]
    /\ UNCHANGED <<handler, logger, flight>>

NextStream == Transform \/ Flush

SpecStream == InitStream /\ [][NextStream]_vars

\* ------------------------------------------------ the keys of regexCache

\* url.hostname of a request: the name the proxy was reached by
OriginHostnames == {OriginHost, "other.example"}

\* a request whose Referer names the other hostname
RefererNamingOther ==
    [BareRequest(PathManifest) EXCEPT !.referer = <<"https://", "other.example", "/">>]

\* the requests that reach the proxy: without headers on a manifest path and
\* on a blob path, and with a Range or a Referer that names a hostname
CacheRequests ==
    { BareRequest(PathManifest), BareRequest(PathBlob), RefererNamingOther,
      [BareRequest(PathManifest) EXCEPT !.range = RangeNamingOrigin] }

\* `(?<!\\.)\\b${hostname}\\b` of index.js, `\\b${hostname}\\b` of part_003/4
HostnameSource(v, hostname) ==
    (IF v = "index.js" THEN "(?<!\\.)\\b" ELSE "\\b") \o hostname \o "\\b"

\* pathnameRegex.replace(/^\^/, "") for the patterns of the configurations
SansCaret(src) ==
    CASE src = "^/v2/"   -> "/v2/"
      [] src = "^cur"    -> "cur"
      [] src = "^10\\."  -> "10\\."
      [] src = "^CN$"    -> "CN$"
      [] src = "^$"      -> "$"
      [] OTHER           -> src

\* the pattern processResponseBody of index.js compiles
BodySource(proxyHostname, pathnameRegex) ==
    IF Configured(pathnameRegex)
    THEN "(" \o HostnameSource("index.js", proxyHostname) \o ")("
             \o SansCaret(pathnameRegex.src) \o ")"
    ELSE HostnameSource("index.js", proxyHostname)

\* getCachedRegex on a pattern built from a hostname: the cache after it
HostnameLookup(cache, src) ==
    getCachedRegex(cache, Pattern(src, TRUE, FALSE, <<>>, FALSE)).cache

\* some value of the headers includes the hostname
NamesHost(headers, hostname) ==
    \E name \in DOMAIN headers :
        \E i \in DOMAIN headers[name] : headers[name][i] = hostname

\* the lookups made while the outbound request is built: part_003/4 fetch
\* the regex of the origin hostname before the loop over the headers,
\* index.js inside the loop, for a value that includes the hostname
requestLookups(v, cache, req, originHostname) ==
    IF v = "index.js"
    THEN IF NamesHost(sanitizeHeaders(RequestHeaders(req)), originHostname)
         THEN HostnameLookup(cache, HostnameSource(v, originHostname))
         ELSE cache
    ELSE HostnameLookup(cache, HostnameSource(v, originHostname))

\* the lookups made on the response: part_003/4 fetch the regex of the
\* backend hostname for every response; index.js for a body it rewrites and
\* for a header value that includes the backend hostname
responseLookups(v, e, cache, resp, backend) ==
    IF v # "index.js" THEN HostnameLookup(cache, HostnameSource(v, backend))
    ELSE LET ct == resp.contentType
             rewritten == /\ resp.status # 401
                          /\ IncludesText(ct)
                          /\ ~IncludesOctetStream(ct)
                          /\ ~IncludesVendor(ct, "docker")
                          /\ ~IncludesVendor(ct, "oci")
             c1 == IF rewritten
                   THEN HostnameLookup(cache, BodySource(backend, e.PATHNAME_REGEX))
                   ELSE cache
         IN  IF resp.challenge.scheme # ""
                /\ backend \in {resp.challenge.realm.host, resp.challenge.service}
             THEN HostnameLookup(c1, HostnameSource(v, backend))
             ELSE c1

\* the backends the routing of a configuration can choose
BackendsOf(v, e) == {Route(v, e, r.pathname) : r \in Requests}

\* the keys the configuration alone accounts for: its patterns, and the
\* patterns built from its backend hostnames
ConfiguredKeys(v, e) ==
    {e[slot].src : slot \in SlotSet}
    \cup {HostnameSource(v, b) : b \in BackendsOf(v, e)}
    \cup {BodySource(b, e.PATHNAME_REGEX) : b \in BackendsOf(v, e)}

\* a process has started; no request yet.  The redirect of a denial and the
\* number of attempts make no call of getCachedRegex.
InitCache ==
    /\ variant \in Variants
    /\ env \in {e \in Envs : e.URL302 = "" /\ e.MAX_RETRIES = 1}
    /\ regexCache = <<>>
    /\ metrics = NewMetrics
    /\ cur = NoRequest
    /\ served = 0
    /\ tally = [errors |-> 0, timeouts |-> 0, retries |-> 0]
    /\ stream = NoStream
    /\ logger = NoLogger
    /\ flight = NoFlight

\* one request, reached by some hostname, from arrival to response: the
\* calls of getCachedRegex the handler makes for it
CachedLookups ==
    /\ served < MaxRequests
    /\ \E req \in CacheRequests :
         LET h == HandleStart(variant, env, regexCache, metrics, served + 1, req)
             sent == h.cur.forwarded /\ h.cur.upstreamCalls > 0
         IN  \E originHostname \in OriginHostnames, outcome \in Outcomes :
               LET c1 == IF h.cur.forwarded
                         THEN requestLookups(variant, h.cache, req, originHostname)
                         ELSE h.cache
               IN  /\ variant # "index.js" => outcome # "abort"
                   /\ \E resp \in UpstreamResponses(variant, env, h.cur.backend, outcome) :
                         regexCache' = IF sent /\ resp # NoResponse
                                       THEN responseLookups(variant, env, c1, resp,
                                                            h.cur.backend)
                                       ELSE c1
    /\ served' = served + 1
    /\ UNCHANGED <<variant, env, metrics, cur, tally>>
    /\ UNCHANGED others

NextCache == CachedLookups

SpecCache == InitCache /\ [][NextCache]_vars

\* one request's logger, nothing else running
InitLogger ==
    /\ variant = "index.js"
    /\ HandlerIdle
    /\ stream = NoStream
    /\ logger = NoLogger
    /\ flight = NoFlight

\* some method of the logger calls _log
Log ==
    /\ logger.calls < MaxCalls
    /\ \E call \in LogCalls : logger' = log(logger, call.level, call.event)
    /\ UNCHANGED <<handler, stream, flight>>

NextLogger == Log

SpecLogger == InitLogger /\ [][NextLogger]_vars

\* two requests are about to arrive at one isolate
InitFlight ==
    /\ variant \in Variants
    /\ HandlerIdleWith(FlightRetries)
    /\ stream = NoStream
    /\ logger = NoLogger
    /\ \E h1 \in RequestIdHeaders, h2 \in RequestIdHeaders :
          flight = [pc |-> "run", clock |-> 1, timings |-> <<>>,
                    reqs |-> <<NewFlightRequest(h1), NewFlightRequest(h2)>>]

FlightUnchanged == UNCHANGED <<handler, stream, logger>>

\* time passes
Tick ==
    /\ flight.clock < MaxClock
    /\ flight' = [flight EXCEPT !.clock = @ + 1]
    /\ FlightUnchanged

\* request n arrives: its id, recordRequestStart, and the first fetch
FlightStart ==
    /\ \E n \in DOMAIN flight.reqs :
         LET r == flight.reqs[n]
             id == requestIdOf(variant, n, r.header)
         IN  /\ r.pc = "new"
             /\ flight' = [flight EXCEPT
                    !.timings = timingSet(@, id, flight.clock),
                    !.reqs[n] = startAttempt(variant,
                                    [r EXCEPT !.id = id, !.started = flight.clock],
                                    0)]
    /\ FlightUnchanged

\* the fetch of request n settles
FlightSettle ==
    /\ \E n \in DOMAIN flight.reqs, outcome \in Outcomes \ {"abort"} :
         LET r == flight.reqs[n]
         IN  /\ r.pc = "fetching"
             /\ flight' = flightStep(flight, n, attemptSettles(variant, env, r, outcome))
    /\ FlightUnchanged

\* a timer of request n that is still armed fires
TimerFires ==
    /\ \E n \in DOMAIN flight.reqs :
         \E t \in flight.reqs[n].timers :
            flight' = flightStep(flight, n, timerFires(flight.reqs[n], t))
    /\ FlightUnchanged

\* the backoff delay of request n is over: the next attempt
BackoffOver ==
    /\ \E n \in DOMAIN flight.reqs :
         LET r == flight.reqs[n]
         IN  /\ r.pc = "waiting"
             /\ flight' = [flight EXCEPT
                             !.reqs[n] = startAttempt(variant, r, r.attempt + 1)]
    /\ FlightUnchanged

NextFlight == Tick \/ FlightStart \/ FlightSettle \/ TimerFires \/ BackoffOver

SpecFlight == InitFlight /\ [][NextFlight]_vars

\* ------------------------------------------------------------ the actions

Init ==
    /\ variant \in Variants
    /\ env \in Envs
    /\ regexCache = <<>>
    /\ metrics = NewMetrics
    /\ cur = NoRequest
    /\ served = 0
    /\ tally = [errors |-> 0, timeouts |-> 0, retries |-> 0]
    /\ stream = NoStream
    /\ logger = NoLogger
    /\ flight = NoFlight

\* a request arrives and the handler runs up to its first await
Receive ==
    /\ cur.pc = "idle"
    /\ served < MaxRequests
    /\ \E req \in Requests :
         LET h == HandleStart(variant, env, regexCache, metrics, served + 1, req)
         IN  /\ regexCache' = h.cache
             /\ metrics' = h.metrics
             /\ cur' = h.cur
    /\ served' = served + 1
    /\ UNCHANGED <<variant, env, tally>>
    /\ UNCHANGED others

\* the outbound fetch of the request in flight settles
UpstreamSettles ==
    /\ cur.pc = "fetching"
    /\ cur.upstreamCalls > 0
    /\ \E outcome \in Outcomes :
         /\ variant # "index.js" => outcome # "abort"
         /\ \E resp \in UpstreamResponses(variant, env, cur.backend, outcome) :
              LET c == [cur EXCEPT !.upstream = resp]
                  h == IF variant = "index.js"
                       THEN fetchWithTimeout(env, metrics, c, outcome)
                       ELSE fetchOnce(variant, env, metrics, c, outcome)
              IN  metrics' = h.metrics /\ cur' = h.cur
    /\ UNCHANGED <<variant, env, regexCache, served, tally>>
    /\ UNCHANGED others

(***************************************************************************)
(* MAX_RETRIES <= 0: the loop of fetchWithTimeout has no iteration and     *)
(* "throw lastError" throws undefined.  The catch block counts the error,  *)
(* ends the timing and then reads error.message, which throws: the         *)
(* handler's promise rejects and no response is returned.                  *)
(***************************************************************************)
LoopNeverRuns ==
    /\ cur.pc = "fetching"
    /\ cur.upstreamCalls = 0
    /\ metrics' = recordRequestEnd(recordError(metrics), cur.id, 0)
    /\ cur' = [cur EXCEPT !.pc = "done", !.rejected = TRUE]
    /\ UNCHANGED <<variant, env, regexCache, served, tally>>
    /\ UNCHANGED others

\* the request ended in an error: the handler built an error response, or
\* its promise rejected
Errored(c) == c.errorType # "" \/ c.rejected

\* the attempts of the request that timed out
TimedOutAttempts(c) ==
    Cardinality({k \in DOMAIN c.outcomes : c.outcomes[k] = "abort"})

\* the attempts of the request after its first
Retried(c) == IF c.upstreamCalls = 0 THEN 0 ELSE c.upstreamCalls - 1

\* the response (or the rejection) has left the handler: the request's
\* context is gone, the process-wide state stays
Return ==
    /\ cur.pc = "done"
    /\ cur' = NoRequest
    /\ tally' = [errors |-> tally.errors + (IF Errored(cur) THEN 1 ELSE 0),
                 timeouts |-> tally.timeouts + TimedOutAttempts(cur),
                 retries |-> tally.retries + Retried(cur)]
    /\ UNCHANGED <<variant, env, regexCache, metrics, served>>
    /\ UNCHANGED others

Next == Receive \/ UpstreamSettles \/ LoopNeverRuns \/ Return

Spec == Init /\ [][Next]_vars

\* ================================================================= claims

\* the handler has run the request through validation and the access check
Checked == cur.pc \in {"fetching", "done"} /\ cur.checked

\* validateConfig of index.js has nothing to throw for the configuration
ConfigOk(e) ==
    /\ e.PROXY_HOSTNAME # ""
    /\ \A s \in SlotSet : Configured(e[s]) => e[s].valid

(***************************************************************************)
(* C1: in the fetch handler, an outbound fetch is issued for a request     *)
(* only after validateConfig succeeded and the access check let the        *)
(* request through: a request that failed validation or was denied has     *)
(* issued no upstream fetch, at any point of its handling.                 *)
(***************************************************************************)
C1_NoFetchBeforeChecks ==
    /\ cur.upstreamCalls > 0 =>
          /\ cur.validated /\ cur.checked /\ ~cur.denied
          /\ env.PROXY_HOSTNAME # ""
          /\ variant = "index.js" => ConfigOk(env)
    /\ (cur.pc = "done" /\ (cur.errorType = "CONFIG_ERROR" \/ cur.denied)) =>
          cur.upstreamCalls = 0 /\ ~cur.forwarded

\* C1 witness: index.js has answered a request its IP rule denied, and no
\* fetch was issued for it
C1_Witness_Denied ==
    /\ variant = "index.js"
    /\ cur.pc = "done"
    /\ cur.denied
    /\ env.IP_BLACKLIST_REGEX.src # ""
    /\ cur.upstreamCalls = 0

\* a header that is absent counts as the empty string
TextOf(v) == IF v = JSNull THEN EmptyText ELSE v

\* the pattern under a key is set and compiles
Usable(e, slot) == Configured(e[slot]) /\ e[slot].valid

(***************************************************************************)
(* C2: whatever requests came before, a request whose client IP matches    *)
(* the configured IP_BLACKLIST_REGEX is denied and no upstream fetch is    *)
(* issued for it.                                                          *)
(***************************************************************************)
C2_BlacklistedIpDenied ==
    ( /\ Checked
      /\ Usable(env, "IP_BLACKLIST_REGEX")
      /\ cur.req.ip # JSNull
      /\ Matches(env.IP_BLACKLIST_REGEX, cur.req.ip) )
    => cur.denied /\ cur.upstreamCalls = 0

(***************************************************************************)
(* C3: the access decision depends on the request and the configuration    *)
(* only: it is the decision a process that has evaluated no request yet    *)
(* takes for the same request.                                             *)
(***************************************************************************)
C3_DecisionIgnoresHistory ==
    Checked =>
        cur.denied =
            AccessCheck(variant, env, cur.req, cur.backend, <<>>).denied

(***************************************************************************)
(* C4: a denied request is answered 302 when URL302 is configured and 403  *)
(* otherwise, and never with a 2xx status.                                 *)
(***************************************************************************)
C4_DeniedStatus ==
    (cur.pc = "done" /\ cur.denied) =>
        /\ cur.status = IF env.URL302 # "" THEN 302 ELSE 403
        /\ ~(cur.status >= 200 /\ cur.status < 300)

\* the allow key and the deny key of the three categories, with the value of
\* the request they are about (the user-agent case-folded, 4.2 of the design)
Categories(req) ==
    { [allow |-> "UA_WHITELIST_REGEX", deny |-> "UA_BLACKLIST_REGEX",
       value |-> toLowerCase(TextOf(req.ua))],
      [allow |-> "IP_WHITELIST_REGEX", deny |-> "IP_BLACKLIST_REGEX",
       value |-> TextOf(req.ip)],
      [allow |-> "REGION_WHITELIST_REGEX", deny |-> "REGION_BLACKLIST_REGEX",
       value |-> TextOf(req.country)] }

(***************************************************************************)
(* C5: in each category, when the allow pattern and the deny pattern are   *)
(* both configured and both match the request's value, the request is      *)
(* denied.                                                                 *)
(***************************************************************************)
C5_DenyWinsOverAllow ==
    Checked =>
        \A c \in Categories(cur.req) :
            ( /\ Usable(env, c.allow) /\ Usable(env, c.deny)
              /\ Matches(env[c.allow], c.value)
              /\ Matches(env[c.deny], c.value) )
            => cur.denied

(***************************************************************************)
(* C6: when PATHNAME_REGEX is configured and the path does not match it,   *)
(* the request is denied and not forwarded, whatever the other patterns    *)
(* and header values are; the reason, where one is reported (part_003 and  *)
(* part_004), is the path mismatch.                                        *)
(***************************************************************************)
C6_PathMismatchDenies ==
    ( /\ Checked
      /\ Usable(env, "PATHNAME_REGEX")
      /\ ~Matches(env.PATHNAME_REGEX, cur.req.pathname) )
    => /\ cur.denied
       /\ cur.upstreamCalls = 0 /\ ~cur.forwarded
       /\ cur.reason = IF variant = "index.js" THEN "" ELSE "Pathname mismatch"

\* C6 witness: a request off the configured path whose IP is also on the
\* deny-list has been denied for its path by part_003
C6_Witness_PathBeforeIp ==
    /\ variant = "part_003"
    /\ Checked
    /\ Usable(env, "PATHNAME_REGEX") /\ Usable(env, "IP_BLACKLIST_REGEX")
    /\ cur.req.pathname = PathSearch
    /\ cur.req.ip = IpTen
    /\ cur.denied
    /\ cur.reason = "Pathname mismatch"

\* the handler takes up a request in this step
Taken == cur.pc = "idle" /\ cur'.pc # "idle" /\ cur'.checked

\* lastIndex of the RegExp a lookup of p gives in this cache
LastIndexIn(cache, p) == IF p.src \in DOMAIN cache THEN cache[p.src] ELSE 0

\* the rule under the key is applied to the request and its test, made with
\* the matcher as the cache holds it, goes against the request
FailsNow(v, e, req, cache, slot) ==
    /\ Usable(e, slot)
    /\ ~(Guarded(v, slot) /\ ~Truthy(Subject(v, slot, req)))
    /\ LET found == RegExpTest(e[slot], ToText(Subject(v, slot, req)),
                               LastIndexIn(cache, e[slot])).found
       IN  IF IsAllowSlot(slot) THEN ~found ELSE found

\* the positions, in the fixed order, of the rules whose test goes against
\* the request
FailingRules(v, e, req, cache) ==
    {k \in DOMAIN RuleSlots : FailsNow(v, e, req, cache, RuleSlots[k])}

(***************************************************************************)
(* C7: in part_003 and part_004 a request is denied exactly when the test  *)
(* of some rule goes against it, and the one reason reported is that of    *)
(* the first such rule in the order path, UA-allow, UA-deny, IP-allow,     *)
(* IP-deny, region-allow, region-deny: a later rule never overwrites it.   *)
(***************************************************************************)
C7_FirstFailingRuleGivesReason ==
    [][ (Taken /\ variant \in {"part_003", "part_004"}) =>
            LET F == FailingRules(variant, env, cur'.req, regexCache)
            IN  /\ cur'.denied <=> F # {}
                /\ cur'.reason = IF F = {} THEN ""
                                 ELSE ReasonOf(RuleSlots[SetMin(F)]) ]_vars

\* C7 witness: part_004 has denied a request whose user-agent is on the
\* deny-list and whose IP is off the allow-list, for its user-agent
C7_Witness_UaBeforeIp ==
    /\ variant = "part_004"
    /\ Checked
    /\ Usable(env, "UA_BLACKLIST_REGEX") /\ Usable(env, "IP_WHITELIST_REGEX")
    /\ cur.req.ip = IpOther
    /\ cur.denied
    /\ cur.reason = "UA blacklisted"

(***************************************************************************)
(* C8: a key that is not configured never denies.  With PROXY_HOSTNAME set *)
(* and none of the seven patterns configured every request, whatever its   *)
(* path and headers, is let through and handed to the upstream call; and a *)
(* denial always comes from a key that is configured.                      *)
(***************************************************************************)
C8_AbsentPatternNeverDenies ==
    /\ ( /\ cur.pc # "idle"
         /\ env.PROXY_HOSTNAME # ""
         /\ \A s \in SlotSet : ~Configured(env[s]) )
       => /\ ~cur.denied /\ cur.forwarded
          /\ cur.status \notin {302, 403}
          /\ (variant # "index.js" \/ MaxRetriesOf(env) >= 1)
                => cur.upstreamCalls >= 1
    /\ cur.denied =>
          \E s \in SlotSet :
              /\ Configured(env[s])
              /\ variant # "index.js" => cur.reason = ReasonOf(s)

\* C8 witness: with no pattern configured, a request without user-agent, IP
\* and region headers has been let through and its fetch is in flight
C8_Witness_BareRequestForwarded ==
    /\ cur.pc = "fetching"
    /\ env.PROXY_HOSTNAME # ""
    /\ \A s \in SlotSet : ~Configured(env[s])
    /\ cur.req.ua = JSNull /\ cur.req.ip = JSNull /\ cur.req.country = JSNull
    /\ cur.upstreamCalls = 1

\* the allow key and the deny key of the categories whose header the request
\* does not carry
MissingCategories(req) ==
    { c \in { [allow |-> "UA_WHITELIST_REGEX", deny |-> "UA_BLACKLIST_REGEX",
               value |-> req.ua],
              [allow |-> "IP_WHITELIST_REGEX", deny |-> "IP_BLACKLIST_REGEX",
               value |-> req.ip],
              [allow |-> "REGION_WHITELIST_REGEX",
               deny |-> "REGION_BLACKLIST_REGEX", value |-> req.country] } :
        c.value = JSNull }

\* the keys of the configuration that are set
ConfiguredSlots(e) == {s \in SlotSet : Configured(e[s])}

(***************************************************************************)
(* C9: a header that is absent is matched as the empty string.  An         *)
(* allow-list that does not match the empty string denies the request; a   *)
(* deny-list that matches the empty string denies it; and a deny-list that *)
(* does not match the empty string, alone in the configuration, lets it    *)
(* through.                                                                *)
(***************************************************************************)
C9_MissingValueIsEmptyString ==
    Checked =>
        \A c \in MissingCategories(cur.req) :
            /\ (Usable(env, c.allow) /\ ~Matches(env[c.allow], EmptyText))
                  => cur.denied
            /\ (Usable(env, c.deny) /\ Matches(env[c.deny], EmptyText))
                  => cur.denied
            /\ ( /\ Usable(env, c.deny)
                 /\ ~Matches(env[c.deny], EmptyText)
                 /\ ConfiguredSlots(env) = {c.deny} )
                  => ~cur.denied

\* the request with its user-agent in lower case
LowerUa(req) ==
    [req EXCEPT !.ua = IF @ = JSNull THEN @ ELSE toLowerCase(@)]

(***************************************************************************)
(* C10: the user-agent patterns are tested against the lower-cased         *)
(* user-agent, so a request gets the decision the same process would take  *)
(* for the same request with its user-agent in lower case; path, IP and    *)
(* region are matched as sent: a region that differs from the allow-listed *)
(* one in letter case only is denied.                                      *)
(***************************************************************************)
C10_UaCaseFolded ==
    [][ Taken =>
          /\ cur'.denied =
                AccessCheck(variant, env, LowerUa(cur'.req), cur'.backend,
                            regexCache).denied
          /\ ( /\ Usable(env, "REGION_WHITELIST_REGEX")
               /\ cur'.req.country # JSNull
               /\ ~Matches(env.REGION_WHITELIST_REGEX, cur'.req.country) )
             => cur'.denied ]_vars

\* the path follows the auth convention: it ends with /token or contains /auth
AuthConvention(pathname) ==
    \/ EndsWith(pathname, <<"/", "t", "o", "k", "e", "n">>)
    \/ Includes(pathname, <<"/", "a", "u", "t", "h">>)

\* the path follows the search/catalog convention
SearchConvention(pathname) ==
    \/ StartsWith(pathname, <<"/", "v", "1", "/", "s", "e", "a", "r", "c", "h">>)
    \/ StartsWith(pathname, <<"/", "v", "2", "/", "_", "c", "a", "t", "a", "l", "o", "g">>)
    \/ Includes(pathname, <<"/", "s", "e", "a", "r", "c", "h">>)

\* the handler has validated the configuration and picked a backend
Routed == cur.pc # "idle" /\ cur.validated

(***************************************************************************)
(* C11: a request whose path follows neither the auth convention nor the   *)
(* search/catalog convention is routed to the configured PROXY_HOSTNAME,   *)
(* whatever host that is, manifest and blob paths under /v2 included.      *)
(***************************************************************************)
C11_DefaultRouteIsConfiguredHost ==
    ( /\ Routed
      /\ ~AuthConvention(cur.req.pathname)
      /\ ~SearchConvention(cur.req.pathname) )
    => cur.backend = env.PROXY_HOSTNAME

(***************************************************************************)
(* C12: the backend is a function of path and configuration that applies   *)
(* the rules in priority order: a path of the auth convention goes to the  *)
(* auth backend (AUTH_PROXY_HOSTNAME, by default auth.docker.io), also     *)
(* when it matches the search rule; otherwise a path of the search/catalog *)
(* convention goes to the index backend (INDEX_PROXY_HOSTNAME, by default  *)
(* index.docker.io).                                                       *)
(***************************************************************************)
C12_RoutingPriority ==
    Routed =>
        /\ AuthConvention(cur.req.pathname) =>
              cur.backend = OrDefault(env.AUTH_PROXY_HOSTNAME, "auth.docker.io")
        /\ (~AuthConvention(cur.req.pathname) /\ SearchConvention(cur.req.pathname)) =>
              cur.backend = OrDefault(env.INDEX_PROXY_HOSTNAME, "index.docker.io")

\* index.js is handling, or has answered, a request it let through
InUpstreamCall == variant = "index.js" /\ cur.pc # "idle" /\ cur.forwarded

\* the attempts of the request that have settled, by their outcome
AttemptsWith(outs) == {k \in DOMAIN cur.outcomes : cur.outcomes[k] \in outs}

(***************************************************************************)
(* C13: with MAX_RETRIES = N >= 1, fetchWithTimeout never makes more than  *)
(* N attempts, and when every attempt failed (it timed out or raised a     *)
(* transport error) it has made exactly N attempts and ended with          *)
(* REQUEST_TIMEOUT or the last transport error.                            *)
(***************************************************************************)
C13_ExactlyNAttemptsOnFailure ==
    (InUpstreamCall /\ MaxRetriesOf(env) >= 1) =>
        /\ cur.upstreamCalls <= MaxRetriesOf(env)
        /\ ( /\ cur.pc = "done"
             /\ AttemptsWith({"abort", "networkError"}) = DOMAIN cur.outcomes )
           => /\ Len(cur.outcomes) = MaxRetriesOf(env)
              /\ cur.upstreamCalls = MaxRetriesOf(env)
              /\ cur.errorType \in {"REQUEST_TIMEOUT", "UNKNOWN_ERROR"}

(***************************************************************************)
(* C14: an attempt that timed out is retried while attempts remain: it is  *)
(* followed by another attempt unless it was attempt number MAX_RETRIES,   *)
(* and REQUEST_TIMEOUT is raised only when all MAX_RETRIES attempts have   *)
(* been made.                                                              *)
(***************************************************************************)
C14_TimeoutIsRetried ==
    (InUpstreamCall /\ MaxRetriesOf(env) >= 1) =>
        /\ \A k \in AttemptsWith({"abort"}) :
              k < MaxRetriesOf(env) => cur.upstreamCalls > k
        /\ cur.errorType = "REQUEST_TIMEOUT" =>
              cur.upstreamCalls = MaxRetriesOf(env)

C17_BackoffGrowsBelowCeiling ==
    InUpstreamCall =>
        /\ \A k \in DOMAIN cur.delays :
              k > 1 => cur.delays[k - 1] < cur.delays[k]
        /\ \A k \in DOMAIN cur.delays : cur.delays[k] <= 5000

(***************************************************************************)
(* C18: the handler of index.js ends every request by returning a          *)
(* response, MAX_RETRIES = 0 included: its promise never rejects, and an   *)
(* error without a status code is answered 500 with type UNKNOWN_ERROR.    *)
(***************************************************************************)
C18_HandlerAlwaysResponds ==
    (variant = "index.js" /\ cur.pc = "done") =>
        /\ ~cur.rejected
        /\ cur.status >= 100
        /\ cur.errorType = "UNKNOWN_ERROR" => cur.status = 500

(***************************************************************************)
(* C19: a request whose upstream call ended in REQUEST_TIMEOUT is answered *)
(* with status 504 and a Retry-After header.                               *)
(***************************************************************************)
C19_TimeoutAnswered504RetryAfter ==
    (cur.pc = "done" /\ cur.errorType = "REQUEST_TIMEOUT") =>
        /\ cur.status = 504
        /\ "retry-after" \in cur.ownHeaders

\* the key validation has to reject: PROXY_HOSTNAME when it is missing,
\* else the first supplied pattern that does not compile, else ""
OffendingKey(e) ==
    IF e.PROXY_HOSTNAME = "" THEN "PROXY_HOSTNAME" ELSE FirstInvalid(e, 1)

(***************************************************************************)
(* C20: when PROXY_HOSTNAME is missing or empty, or one of the seven       *)
(* patterns supplied does not compile, the request ends with status 500    *)
(* and type CONFIG_ERROR, the error names the offending key, and the       *)
(* request is neither routed nor access-checked nor forwarded.             *)
(***************************************************************************)
C20_InvalidConfigIsConfigError ==
    (cur.pc # "idle" /\ OffendingKey(env) # "") =>
        /\ cur.pc = "done"
        /\ cur.status = 500 /\ cur.errorType = "CONFIG_ERROR"
        /\ cur.errorKey = OffendingKey(env)
        /\ cur.backend = "" /\ ~cur.checked
        /\ ~cur.forwarded /\ cur.upstreamCalls = 0

(***************************************************************************)
(* C22: once N requests have been handled, E of which ended in an error,   *)
(* the snapshot of index.js reports errorRate = E / N, and likewise the    *)
(* timeouts and the retries over the requests; with no request every rate  *)
(* is 0.                                                                   *)
(***************************************************************************)
C22_RatesOverRequests ==
    (variant = "index.js" /\ cur.pc = "idle") =>
        LET g == getMetrics(metrics)
        IN  /\ g.requests = served
            /\ served = 0 =>
                  /\ g.errorRate.num = 0
                  /\ g.timeoutRate.num = 0
                  /\ g.retryRate.num = 0
            /\ g.errorRate.num * served = tally.errors * g.errorRate.den
            /\ g.timeoutRate.num * served = tally.timeouts * g.timeoutRate.den
            /\ g.retryRate.num * served = tally.retries * g.retryRate.den

(***************************************************************************)
(* C23: the timing map holds the ids of the requests in flight and no      *)
(* other: once the handler has returned the response of a request, however *)
(* it ended, its id is gone, and with no request in flight the map is      *)
(* empty.                                                                  *)
(***************************************************************************)
C23_TimingMapHoldsInFlightOnly ==
    /\ cur.pc = "fetching" => metrics.requestTimings = {cur.id}
    /\ cur.pc \in {"done", "idle"} => metrics.requestTimings = {}

(***************************************************************************)
(* C24: an access denial is not counted as an error: answering a denied    *)
(* request leaves the errors counter as it was.                            *)
(***************************************************************************)
C24_DenialIsNotAnError ==
    (cur.pc = "done" /\ cur.denied /\ cur.errorType = "ACCESS_DENIED") =>
        metrics.errors = cur.before.errors

\* the text sha256: of a digest in a path
TextSha256 == <<"s", "h", "a", "2", "5", "6", ":">>

HexDigits ==
    {"0", "1", "2", "3", "4", "5", "6", "7", "8", "9", "a", "b", "c", "d", "e", "f"}

\* the digest of a blob path: what follows the first sha256: in it
DigestOf(pathname) ==
    LET at == SetMin({i \in 0..(Len(pathname) - Len(TextSha256)) :
                        \A k \in 1..Len(TextSha256) :
                            pathname[i + k] = TextSha256[k]})
    IN  SubSeq(pathname, at + Len(TextSha256) + 1, Len(pathname))

\* a blob path whose sha256: digest is not 64 lower-case hex digits
BadDigestPath(pathname) ==
    /\ Includes(pathname, TextBlobs)
    /\ Includes(pathname, TextSha256)
    /\ LET d == DigestOf(pathname)
       IN  Len(d) # 64 \/ \E k \in 1..Len(d) : d[k] \notin HexDigits

(***************************************************************************)
(* C21: a blob request whose sha256: digest is not 64 lower-case hex       *)
(* digits, and that the configuration and the access rules let through, is *)
(* answered 400 INVALID_SHA256 and no outbound call is made for it.        *)
(***************************************************************************)
C21_BadDigestRejected ==
    (Checked /\ ~cur.denied /\ BadDigestPath(cur.req.pathname)) =>
        /\ cur.upstreamCalls = 0
        /\ cur.pc = "done" =>
              cur.status = 400 /\ cur.errorType = "INVALID_SHA256"

(***************************************************************************)
(* C26: whatever headers the inbound request has, the request sent to the  *)
(* backend carries none of cf-connecting-ip, x-real-ip, x-forwarded-for.   *)
(***************************************************************************)
C26_ForwardingHeadersDropped ==
    cur.forwarded => DOMAIN cur.outbound \cap SensitiveHeaders = {}

(***************************************************************************)
(* C27: index.js: the Range header of the outbound request has exactly the *)
(* value of the inbound request's Range header, whatever the sanitising    *)
(* and the hostname substitution did before.                               *)
(***************************************************************************)
C27_RangeVerbatim ==
    (variant = "index.js" /\ cur.forwarded /\ cur.req.range # JSNull) =>
        /\ "range" \in DOMAIN cur.outbound
        /\ cur.outbound["range"] = cur.req.range

\* a forwarded request whose Range names the proxy, and whose Referer shows
\* that the substitution ran
C27_Witness_RangeNamingOrigin ==
    /\ variant = "index.js" /\ cur.forwarded
    /\ cur.req.range = RangeNamingOrigin
    /\ cur.outbound["range"] = RangeNamingOrigin
    /\ cur.outbound["referer"] = <<"https://", cur.backend, "/">>

\* the 1-based place of a media type in an Accept list, 0 when it is not there
PlaceIn(list, type) ==
    IF \E i \in DOMAIN list : list[i] = type
    THEN CHOOSE i \in DOMAIN list : list[i] = type
    ELSE 0

\* the Accept list names the OCI manifest type, and the OCI and Docker v2
\* types come before application/json, which comes before */*
ManifestPreference(list) ==
    /\ \A t \in {"application/vnd.oci.image.manifest.v1+json",
                 "application/vnd.oci.image.index.v1+json",
                 "application/vnd.docker.distribution.manifest.v2+json",
                 "application/vnd.docker.distribution.manifest.list.v2+json"} :
          /\ PlaceIn(list, t) > 0
          /\ PlaceIn(list, t) < PlaceIn(list, "application/json")
    /\ PlaceIn(list, "application/json") < PlaceIn(list, "*/*")

\* the outbound request of index.js has the manifest Accept list and the API
\* version header
ManifestHeadersSent ==
    /\ "accept" \in DOMAIN cur.outbound
    /\ cur.outbound["accept"] = ManifestAccept
    /\ ManifestPreference(cur.outbound["accept"])

Delivered == cur.pc = "done" /\ cur.response.status # 0

\* a content-length that is a number: digits only
NumericLength(text) ==
    Truthy(text) /\ \A k \in DOMAIN text : IsDigit(text[k])

(***************************************************************************)
(* C25: when a request is completed, bytesTransferred has grown by the     *)
(* numeric content-length of the final response, and is as it was when the *)
(* final response has no content-length.                                   *)
(***************************************************************************)
C25_BytesGrowByContentLength ==
    (cur.pc = "done" /\ ~cur.rejected) =>
        metrics.bytesTransferred =
            cur.before.bytes
            + (IF Delivered /\ NumericLength(cur.response.contentLength)
               THEN DecimalValue(cur.response.contentLength) ELSE 0)

(***************************************************************************)
(* C29: a 401 of the backend whose challenge has its realm at the auth     *)
(* backend reaches the client as a 401 whose realm is at the origin        *)
(* hostname with the same path and query, the scheme and the other         *)
(* parameters of the challenge being what the backend sent.                *)
(***************************************************************************)
C29_RealmMovedToOrigin ==
    (/\ Delivered
     /\ cur.upstream.status = 401
     /\ cur.upstream.challenge.realm.host = AuthBackend(variant, env)) =>
        /\ cur.status = 401
        /\ cur.response.challenge.realm.host = OriginHost
        /\ cur.response.challenge.realm.path = cur.upstream.challenge.realm.path
        /\ cur.response.challenge.scheme = cur.upstream.challenge.scheme
        /\ cur.response.challenge.service = cur.upstream.challenge.service

(***************************************************************************)
(* C30: the body of a response is rewritten exactly when its content-type  *)
(* is one of the rewritable types: then the backend hostname in it has     *)
(* become the origin hostname, and otherwise the body reaches the client   *)
(* as the backend sent it.                                                 *)
(***************************************************************************)
C30_RewrittenIffRewritableType ==
    (Delivered /\ cur.upstream.body.host = cur.backend) =>
        IF WithoutParams(cur.upstream.contentType) \in REWRITABLE_CONTENT_TYPES
        THEN cur.response.body = Body(OriginHost, cur.upstream.body.path)
        ELSE cur.response.body = cur.upstream.body

\* the hostname itself occurs in the text at the 0-based position i
OccursAt(text, host, i) ==
    /\ i + Len(host) <= Len(text)
    /\ \A k \in 1..Len(host) : text[i + k] = host[k]

\* the text contains the hostname, and contains it as a whole word
Occurs(text, host) == \E i \in 0..Len(text) : OccursAt(text, host, i)

OccursAsWord(text, host) ==
    \E i \in 0..Len(text) :
        /\ OccursAt(text, host, i)
        /\ WordBoundary(text, i) /\ WordBoundary(text, i + Len(host))

(***************************************************************************)
(* C31: however the body is cut into chunks, what the stream has enqueued  *)
(* when it is closed is, concatenated, the body with the hostname replaced *)
(* in it as a whole.                                                       *)
(***************************************************************************)
C31_ChunkingDoesNotMatter ==
    stream.pc = "closed" =>
        Concat(stream.emitted)
            = ReplaceAll(stream.body, stream.host, stream.origin, FALSE)

(***************************************************************************)
(* C32: for a text that contains the hostname as a whole word, replacing   *)
(* the hostname by the origin twice gives what replacing it once gives,    *)
(* with the regex of part_004 and with the regex of index.js.              *)
(***************************************************************************)
C32_RewriteIdempotent ==
    (stream.pc # "none" /\ OccursAsWord(stream.body, stream.host)) =>
        \A lookbehind \in BOOLEAN :
            LET once == ReplaceAll(stream.body, stream.host, stream.origin,
                                   lookbehind)
            IN  ReplaceAll(once, stream.host, stream.origin, lookbehind) = once

(***************************************************************************)
(* C33: after every transform step the buffer the stream carries over      *)
(* holds at most max(1024, C) characters, C being the longest chunk so     *)
(* far, and holds no newline.                                              *)
(***************************************************************************)
C33_BufferBounded ==
    (stream.pc = "open" /\ stream.chunks > 0) =>
        /\ Len(stream.buffer)
             <= (IF stream.largest > SoftLimit THEN stream.largest ELSE SoftLimit)
        /\ LastNewline(stream.buffer) = -1

(***************************************************************************)
(* C34: for a body in which the hostname does not occur, what transform    *)
(* and flush have enqueued is, concatenated, the body, and nothing stays   *)
(* in the buffer after flush.                                              *)
(***************************************************************************)
C34_NothingLostWithoutHostname ==
    (stream.pc = "closed" /\ ~Occurs(stream.body, stream.host)) =>
        /\ Concat(stream.emitted) = stream.body
        /\ stream.buffer = <<>>

\* the regular entries the console was given, and the limit warnings
RegularEntries ==
    BagCardinality(logger.console) - CopiesIn(LimitWarning, logger.console)

\* C40: a logger emits at most maxLogsPerRequest regular entries, then
\* exactly one log_limit_reached warning; calls of _log after that emit
\* nothing, and logCount never exceeds maxLogsPerRequest + 1.
C40_LogLimit ==
    /\ logger.logCount <= maxLogsPerRequest + 1
    /\ RegularEntries <= maxLogsPerRequest
    /\ RegularEntries = (IF logger.calls < maxLogsPerRequest
                          THEN logger.calls ELSE maxLogsPerRequest)
    /\ CopiesIn(LimitWarning, logger.console)
         = (IF logger.calls > maxLogsPerRequest THEN 1 ELSE 0)
    /\ logger.calls > maxLogsPerRequest => logger.last = LimitWarning

C40_Witness_SuppressedAfterWarning ==
    /\ logger.calls = maxLogsPerRequest + 3
    /\ logger.logCount = maxLogsPerRequest + 1
    /\ BagCardinality(logger.console) = maxLogsPerRequest + 1

(***************************************************************************)
(* C39: every request adds one to the requests counter and at most one to  *)
(* the errors counter, whatever path it takes, so that errors never        *)
(* exceeds requests and the reported errorRate never exceeds 1.            *)
(***************************************************************************)
C39_ErrorsAtMostRequests ==
    /\ metrics.requests = served
    /\ cur.pc \in {"fetching", "done"} =>
          metrics.errors <= cur.before.errors + 1
    /\ metrics.errors <= metrics.requests
    /\ LET g == getMetrics(metrics)
       IN  g.errorRate.num <= g.errorRate.den

(***************************************************************************)
(* C38: a response of fetchWithTimeout that is neither ok nor a 401 is     *)
(* returned as the response, its status passed through, when it arrives on *)
(* the last attempt; on an earlier attempt it is never returned: the       *)
(* backoff delay of that attempt is waited and another attempt is made.    *)
(***************************************************************************)
C38_NotOkReturnedOnLastAttemptOnly ==
    InUpstreamCall =>
        \A k \in AttemptsWith({"notOk"}) :
            IF k = MaxRetriesOf(env)
            THEN /\ k = Len(cur.outcomes)
                 /\ cur.pc = "done" /\ ~cur.rejected
                 /\ cur.status = StatusOf("notOk")
                 /\ cur.response.status = cur.upstream.status
                 /\ cur.errorType = ""
                 /\ metrics.errors = cur.before.errors
            ELSE /\ k < MaxRetriesOf(env)
                 /\ Len(cur.delays) >= k /\ cur.delays[k] = 1000 * k
                 /\ cur.upstreamCalls > k
                 /\ cur.pc = "done" => Len(cur.outcomes) > k

\* C38 witness: three attempts allowed, each answered 503; the third 503 is
\* the response
C38_Witness_ThirdNotOkReturned ==
    /\ InUpstreamCall
    /\ MaxRetriesOf(env) = DefaultMaxRetries
    /\ cur.outcomes = <<"notOk", "notOk", "notOk">>
    /\ cur.delays = <<1000, 2000>>
    /\ cur.pc = "done" /\ cur.status = 503

\* the requests in flight: started, and their response not yet returned
InFlight == {n \in DOMAIN flight.reqs : flight.reqs[n].pc \in {"fetching", "waiting"}}

(***************************************************************************)
(* C36: two requests in flight do not interfere through the timing map:    *)
(* their ids are distinct, the entry of each stays in the map with its own *)
(* start time while it is in flight, whatever the other does, and the      *)
(* duration recorded for a request is measured from its own start.         *)
(***************************************************************************)
C36_TimingEntriesApart ==
    flight.pc = "run" =>
        /\ \A n \in InFlight, k \in InFlight :
              n # k => flight.reqs[n].id # flight.reqs[k].id
        /\ \A n \in InFlight :
              /\ flight.reqs[n].id \in DOMAIN flight.timings
              /\ flight.timings[flight.reqs[n].id] = flight.reqs[n].started
        /\ \A n \in DOMAIN flight.reqs :
              flight.reqs[n].pc = "done" =>
                  flight.reqs[n].duration
                      = flight.reqs[n].ended - flight.reqs[n].started

(***************************************************************************)
(* C37: an attempt of fetchWithTimeout has one timer and one controller of *)
(* its own; the timer of an attempt that has ended is cleared before the   *)
(* next attempt or the return, so the only timer armed is the one of the   *)
(* attempt in progress and the only controller ever aborted is the one of  *)
(* the attempt that timed out.                                             *)
(***************************************************************************)
C37_OneTimerPerAttempt ==
    (flight.pc = "run" /\ variant = "index.js") =>
        \A n \in DOMAIN flight.reqs :
            LET r == flight.reqs[n]
            IN  /\ r.pc = "fetching" =>
                      r.timers = {r.attempt} /\ r.signal = r.attempt
                /\ r.pc # "fetching" => r.timers = {}
                /\ r.aborted \subseteq {r.attempt}
                /\ r.aborted # {} <=> r.timedOut
                /\ r.timedOut => r.pc = "done"

\* C37 witness: the second attempt of request 1 timed out after its first
\* was retried, while request 2 waits for its own second attempt
C37_Witness_SecondAttemptTimedOut ==
    /\ flight.pc = "run" /\ variant = "index.js"
    /\ flight.reqs[1].pc = "done" /\ flight.reqs[1].aborted = {1}
    /\ flight.reqs[2].pc = "fetching" /\ flight.reqs[2].attempt = 1
    /\ flight.reqs[2].timers = {1}

(***************************************************************************)
(* C35: the regex cache only grows by keys that were absent, and the keys  *)
(* it holds after any sequence of requests are those of the configured     *)
(* patterns and of the backend hostnames: a value of the request, such as  *)
(* the hostname it was sent to, never adds a key.                          *)
(***************************************************************************)
C35_CacheKeysFromConfiguration ==
    DOMAIN regexCache \subseteq ConfiguredKeys(variant, env)

====
